---------------------------- MODULE Spec2Model ----------------------------
(***************************************************************************)
(* A model of the SEC narrative-drift pipeline (scripts/):                 *)
(*   - sec_extract_item1a.py : the Item 1A section extractor               *)
(*   - sec_fetch_and_build.py: the low-confidence gate, the year           *)
(*                             derivation and the per-filing loop          *)
(*   - sec_metrics.py        : build_metrics (validity gate, drift arrays,  *)
(*                             similarity matrix, shift pairs, terms)      *)
(*   - sec_quality.py        : build_excerpt_pairs, the excerpt selector   *)
(*   - build_canonical_terms.py : the canonical-terms compiler             *)
(*   - sec_cache.py          : the cache size limit and the atomic write   *)
(*                                                                         *)
(* The specifications of the module:                                       *)
(*   SpecExtract   - one extraction, stepped through the extractor's       *)
(*                   states                                                *)
(*   SpecPipeline  - the per-filing loop of fetch-and-build and its        *)
(*                   outputs                                               *)
(*   SpecMetrics   - build_metrics applied to sections of every validity   *)
(*   SpecTerms     - build_metrics applied to valid sections under a       *)
(*                   canonical-terms map: the shift-pair term lists        *)
(*   SpecQuality   - build_excerpt_pairs with the paragraph selector       *)
(*   SpecCompile   - one run of the canonical-terms compiler               *)
(*   SpecDownload  - one download with its rate limiter and retries        *)
(*                   (SpecDownloadLive adds that its steps are taken)      *)
(*   SpecBootstrap - the drift arrays of build_metrics with the values of  *)
(*                   the drifts and of their bootstrap bounds              *)
(*   SpecCache     - cache files stored and enforce_cache_size_limit       *)
(*   SpecWrite     - two writers of atomic_write_bytes on one path, their  *)
(*                   file operations interleaved                           *)
(*   SpecCandidates- the section boundaries the text path finds in a       *)
(*                   document built line by line                           *)
(*   SpecTokens    - tokenize applied to a stream of raw tokens            *)
(***************************************************************************)
EXTENDS Integers, Sequences, FiniteSets, TLC

VARIABLES
    \* ---- section extractor (one extraction) ----
    pc,               \* start, anchor-scan, text-scan, fallback-scan, accept, reject
    trail,            \* the extractor states visited so far, in order
    html,             \* "present" | "missing" | "unread"
    extra_warnings,   \* warnings the caller passes to the gate
    anchor_warnings,  \* extract_item1a_from_html: anchor_warnings
    linkIdx,          \* anchor links consumed
    candIdx,          \* text candidates consumed
    best,             \* extract_item1a_from_text: best (None or a candidate)
    yieldedHigh,      \* some path has computed a section of confidence >= 0.5
    went_past,        \* the anchor loop went past a candidate that met / failed the test
    result,           \* what extract_item1a_from_html returned (None before)
    out,              \* what the gate returned (None before)
    \* ---- fetch-and-build per-filing loop ----
    ppc,              \* "loop" | "done" | "failed" | "idle"
    seen_years,
    filings_out,
    metrics_sections,
    quality_sections,
    lastFilingDate,   \* filings are processed in descending filingDate order
    nProcessed,
    lastCall,         \* the last derive_filing_year call: its inputs and result
    artifacts,        \* the payloads written at the end (None before)
    \* ---- build_metrics ----
    mpc,              \* "input" | "built" | "idle"
    sections,
    canonical_terms,
    built,            \* the value or the exception of build_metrics (None before)
    \* ---- sec_quality.py: the excerpt selector ----
    qpc,              \* "input" | "built" | "idle"
    q_sections,        \* load_sections_from_json: SectionYear records
    q_shifts,          \* load_shifts: the shift pairs of shifts_{cik}.json
    q_pairs,           \* what build_excerpt_pairs returned (None before)
    \* ---- build_canonical_terms.py: the canonical-terms compiler ----
    cpc,              \* "input" | "exited" | "idle"
    c_file,           \* the specification file at args.input_path
    c_args,           \* "write" (--out and --report) | "check" | "no_out"
    c_exit,           \* the exit code of main (None before)
    c_stderr,         \* the lines main printed to stderr
    c_written,        \* the compiled terms written to --out (None: nothing written)
    \* ---- sec_fetch_and_build.py: download and its RateLimiter ----
    dpc,              \* "wait" | "get" | "sleep" | "returned" | "raised" | "idle"
    attempt,          \* download: attempt
    clock,            \* time.monotonic(), in tenths of a second
    last_time,        \* RateLimiter.last_time
    last_response,    \* download: last_response (None or the status code)
    d_log,            \* limiter waits, requests and sleeps so far, in order
    d_result,         \* what download returned or raised (None before)
    \* ---- sec_metrics.py: the drift arrays and their bootstrap bounds ----
    b_sections,       \* the sections build_metrics is given
    b_runs,           \* the invocations of build_metrics so far, in order
    \* ---- sec_cache.py: enforce_cache_size_limit ----
    k_files,          \* the files under the cache root, in directory order
    k_report,         \* what enforce_cache_size_limit returned and left (None before)
    \* ---- sec_cache.py: atomic_write_bytes, two callers on one target path ----
    fs_dir,           \* the directory: the inode behind the target path and behind <name>.tmp
    fs_inodes,        \* the content of every inode created so far
    w_pc,             \* per caller: "idle" | "open" | "closed" | "returned" | "raised"
    w_handle,         \* per caller: the inode its handle is open on (None before)
    w_offset,         \* per caller: the bytes of its payload handed to the file so far
    w_prev,           \* per caller: the target's content when the call began
    w_alone,          \* per caller: no other call was in progress during this one
    \* ---- sec_extract_item1a.py: the candidates of extract_item1a_from_text ----
    x_doc,            \* the heading lines of the text, in order
    x_found,          \* the candidates and boundary set the function arrived at (None before)
    \* ---- sec_metrics.py: tokenize on a raw token stream ----
    t_raw,            \* the raw tokens TOKEN_RE finds, in order
    t_out             \* what tokenize kept of them (None before)

exVars == <<pc, trail, html, extra_warnings, anchor_warnings, linkIdx, candIdx,
            best, yieldedHigh, went_past, result, out>>
plVars == <<ppc, seen_years, filings_out, metrics_sections, quality_sections,
            lastFilingDate, nProcessed, lastCall, artifacts>>
mtVars == <<mpc, sections, canonical_terms, built>>
qlVars == <<qpc, q_sections, q_shifts, q_pairs>>
coreVars == <<exVars, plVars, mtVars>>
ctVars == <<cpc, c_file, c_args, c_exit, c_stderr, c_written>>
dlVars == <<dpc, attempt, clock, last_time, last_response, d_log, d_result>>
bsVars == <<b_sections, b_runs>>
kcVars == <<k_files, k_report>>
awVars == <<fs_dir, fs_inodes, w_pc, w_handle, w_offset, w_prev, w_alone>>
cdVars == <<x_doc, x_found>>
tkVars == <<t_raw, t_out>>
extVars == <<kcVars, awVars, cdVars, tkVars>>
oldVars == <<coreVars, qlVars, ctVars, dlVars, bsVars>>
auxVars == <<qlVars, ctVars, dlVars, bsVars, extVars>>
vars == <<coreVars, auxVars>>

\* Python's None, and Optional values as sequences of length <= 1.
None == <<>>
Some(v) == <<v>>
IsNone(o) == o = <<>>
TheVal(o) == o[1]

Min(a, b) == IF a <= b THEN a ELSE b
Max(a, b) == IF a >= b THEN a ELSE b
Abs(a) == IF a < 0 THEN 0 - a ELSE a

RECURSIVE SumRange(_, _, _)
SumRange(s, lo, hi) ==
    IF lo > hi THEN 0
    ELSE IF lo = hi THEN s[lo]
    ELSE LET mid == (lo + hi) \div 2
         IN  SumRange(s, lo, mid) + SumRange(s, mid + 1, hi)

SumSeq(s) == SumRange(s, 1, Len(s))

Contains(s, x) == \E i \in 1..Len(s) : s[i] = x
CountIn(s, x) == Cardinality({i \in 1..Len(s) : s[i] = x})
Range(s) == {s[i] : i \in 1..Len(s)}

(***************************************************************************)
(* Floating point.  The confidences are IEEE-754 doubles built from the    *)
(* literals 0.5, 0.2, 0.15, ... by additions and subtractions.  Every such *)
(* value is k/20 + e*u with u = 2^-57/20, k and e integers and |e| small:  *)
(* it is kept as the integer k*ErrScale + e, so that the order of the      *)
(* encodings is the order of the doubles.  FAdd rounds the exact sum to    *)
(* the nearest double (ties to even) on the grid of the sum's binade.      *)
(***************************************************************************)
ErrScale == 100 * 100
Enc(k, e) == k * ErrScale + e
KOf(c) == (c + (ErrScale \div 2) + 100 * ErrScale) \div ErrScale - 100
EOf(c) == c - KOf(c) * ErrScale

RECURSIVE Pow2Mod(_, _)
Pow2Mod(n, m) == IF n = 0 THEN 1 % m ELSE (2 * Pow2Mod(n - 1, m)) % m

\* The spacing of the doubles around k/20 + e*u, in units of u.
Grid(k, e) ==
    CASE k = 1 -> 20
      [] k = 2 -> 40
      [] k \in 3..4 -> 80
      [] k = 5 -> IF e < 0 THEN 80 ELSE 160
      [] k \in 6..9 -> 160
      [] k = 10 -> IF e < 0 THEN 160 ELSE 320
      [] k \in 11..19 -> 320
      [] k = 20 -> IF e < 0 THEN 320 ELSE 640
      [] OTHER -> 640

\* The double nearest to the exact value k/20 + e*u, for k >= 1.
P57 == [g \in {20, 40, 80, 160, 320, 640, 1280} |-> Pow2Mod(57, g)]

RoundPos(k, e) ==
    LET g == Grid(k, e)
        r == (k * P57[g] + e + 100 * g) % g
        odd == ((k * P57[2 * g] + (e - r) + 200 * g) % (2 * g)) # 0
        up == (2 * r > g) \/ (2 * r = g /\ odd)
    IN  Enc(k, IF up THEN e - r + g ELSE e - r)

FAdd(a, b) ==
    LET s == a + b
        k == KOf(s)
        e == EOf(s)
    IN  IF k = 0 THEN s
        ELSE IF k > 0 THEN RoundPos(k, e)
        ELSE 0 - RoundPos(0 - k, 0 - e)

FNeg(a) == 0 - a
FSub(a, b) == FAdd(a, FNeg(b))

\* The literals of the source, as the doubles Python reads them.
F_0_0 == Enc(0, 0)
F_0_05 == Enc(1, 8)
F_0_1 == Enc(2, 16)
F_0_15 == Enc(3, 0 - 16)
F_0_2 == Enc(4, 32)
F_0_25 == Enc(5, 0)
F_0_35 == Enc(7, 0 - 64)
F_0_5 == Enc(10, 0)
F_0_9 == Enc(18, 64)
F_0_95 == Enc(19, 0 - 128)

\* max(lo, min(x, hi))
Clamp(lo, x, hi) == Max(lo, Min(x, hi))

(***************************************************************************)
(* Text.  A text is a sequence of chunks (the pieces between blank lines), *)
(* each with a length in characters.  A chunk of kind "ws" is whitespace   *)
(* only.  The empty text is <<>>.                                          *)
(***************************************************************************)
ChunkLen ==
    [ws |-> 3, hdr |-> 21, num |-> 10, stopw |-> 10, p150 |-> 150, p300 |-> 300,
     p9k |-> 9000, p20k |-> 20000, p90k |-> 90000, p500k |-> 500000,
     p300nl |-> 302, q219 |-> 219, q221nl |-> 221, q220 |-> 220, q2600 |-> 2600,
     q2601 |-> 2601, q250d |-> 250, q250dd |-> 250, q250stop |-> 250,
     ba |-> 300, bb |-> 300, bc |-> 300, bd |-> 300, bab |-> 300, bcd |-> 300,
     bacd |-> 300, babcd |-> 300]

\* sum(ch.isdigit() for ch in chunk)
ChunkDigits ==
    [ws |-> 0, hdr |-> 1, num |-> 8, stopw |-> 0, p150 |-> 0, p300 |-> 0,
     p9k |-> 0, p20k |-> 0, p90k |-> 0, p500k |-> 0,
     p300nl |-> 0, q219 |-> 0, q221nl |-> 0, q220 |-> 0, q2600 |-> 0,
     q2601 |-> 0, q250d |-> 55, q250dd |-> 56, q250stop |-> 0,
     ba |-> 0, bb |-> 0, bc |-> 0, bd |-> 0, bab |-> 0, bcd |-> 0, bacd |-> 0,
     babcd |-> 0]

Chunk(id) == [id |-> id, len |-> ChunkLen[id]]

IsBlankChunk(c) == c.id = "ws"

\* len(text): chunks are joined by a blank line (two newlines).
TextLen(t) == SumSeq([i \in 1..Len(t) |-> t[i].len]) + 2 * Max(0, Len(t) - 1)

RECURSIVE LStrip(_)
LStrip(t) == IF t # <<>> /\ IsBlankChunk(Head(t)) THEN LStrip(Tail(t)) ELSE t

RECURSIVE RStrip(_)
RStrip(t) ==
    IF t # <<>> /\ IsBlankChunk(t[Len(t)]) THEN RStrip(SubSeq(t, 1, Len(t) - 1)) ELSE t

\* str.strip()
Strip(t) == RStrip(LStrip(t))

\* text[:n]
RECURSIVE Truncate(_, _)
Truncate(t, n) ==
    IF t = <<>> \/ n <= 0 THEN <<>>
    ELSE IF Head(t).len >= n THEN <<[id |-> Head(t).id, len |-> n]>>
    ELSE IF Len(t) = 1 THEN t
    ELSE <<Head(t)>> \o Truncate(Tail(t), n - Head(t).len - 2)


\* split_paragraphs(text, min_chars)
split_paragraphs(t, min_chars) ==
    SelectSeq(t, LAMBDA c : ~IsBlankChunk(c) /\ c.len >= min_chars)

DefaultMinChars == 200

(***************************************************************************)
(* The section extractor (sec_extract_item1a.py).                          *)
(*                                                                         *)
(* The document is an input the extractor reads piece by piece: each       *)
(* anchor link and each text candidate is drawn when the loop reaches it.  *)
(* A link or candidate is described by what the code reads off it:         *)
(*   rest     the text from its start to the boundary heading, or to the   *)
(*            end of the document when no boundary heading follows         *)
(*   endFound whether _find_end_marker found a boundary heading            *)
(*   early    start_idx < 8% of the document length                        *)
(*   toc      _toc_cluster_penalty of the section head                     *)
(*   modality 0, 1, 2 for a _modality_bonus of 0.0, 0.1, 0.2               *)
(*   heading  whether _heading_density_bonus gives 0.1                     *)
(***************************************************************************)
MinSectionLen == 8000
BandLow == 15000
BandHigh == 400000
NoEndSpan == 80000

SampleRests ==
    { <<Chunk("hdr"), Chunk("p300")>>,
      <<Chunk("hdr"), Chunk("p9k")>>,
      <<Chunk("hdr"), Chunk("p20k"), Chunk("ws")>>,
      <<Chunk("hdr"), Chunk("p90k")>>,
      <<Chunk("hdr"), Chunk("p500k")>> }

AnchorLinks ==
    [resolve : {"bad_href", "no_target", "no_start", "ok"},
     rest : SampleRests, endFound : BOOLEAN, early : BOOLEAN, toc : BOOLEAN]

TextCandidates ==
    [rest : SampleRests, endFound : BOOLEAN, early : BOOLEAN, toc : BOOLEAN,
     modality : 0..2, heading : BOOLEAN]

FallbackInputs == [risk : BOOLEAN, rest : SampleRests, endFound : BOOLEAN]

\* text[start_idx:end_idx], with end_idx = min(start_idx + 80000, len(text))
\* when no boundary heading was found.
SpanOf(c) == IF c.endFound THEN c.rest ELSE Truncate(c.rest, NoEndSpan)

\* _score_candidate: (score, warnings)
ScoreCandidate(c) ==
    LET length == Max(0, TextLen(SpanOf(c)))
        inBand == BandLow <= length /\ length <= BandHigh
        length_bonus == IF inBand THEN F_0_2
                        ELSE IF length < MinSectionLen THEN FNeg(F_0_25)
                        ELSE FNeg(F_0_1)
        early_penalty == IF c.early THEN FNeg(F_0_15) ELSE F_0_0
        toc_penalty == IF c.toc THEN FNeg(F_0_2) ELSE F_0_0
        modality_bonus == CASE c.modality = 2 -> F_0_2
                            [] c.modality = 1 -> F_0_1
                            [] OTHER -> F_0_0
        heading_bonus == IF c.heading THEN F_0_1 ELSE F_0_0
        sum == FAdd(FAdd(FAdd(FAdd(FAdd(F_0_5, length_bonus), early_penalty),
                              toc_penalty), modality_bonus), heading_bonus)
    IN  [score |-> Clamp(F_0_05, sum, F_0_95),
         breakdown |-> [base |-> F_0_5, lengthBonus |-> length_bonus,
                        earlyPositionPenalty |-> early_penalty,
                        tocClusterPenalty |-> toc_penalty,
                        modalityBonus |-> modality_bonus,
                        headingDensityBonus |-> heading_bonus],
         warnings |-> (IF inBand THEN <<>> ELSE <<"length_out_of_band">>)
                      \o (IF c.early THEN <<"early_position_penalty">> ELSE <<>>)
                      \o (IF c.toc THEN <<"toc_cluster_penalty">> ELSE <<>>)]

\* extract_item1a_from_text, the body of the loop over the candidates.
\* score_breakdown with the end-not-found penalty added to it
WithEndPenalty(b, penalty) ==
    [base |-> b.base,
     lengthBonus |-> b.lengthBonus,
     earlyPositionPenalty |-> b.earlyPositionPenalty,
     tocClusterPenalty |-> b.tocClusterPenalty,
     modalityBonus |-> b.modalityBonus,
     headingDensityBonus |-> b.headingDensityBonus,
     endNotFoundPenalty |-> penalty]

\* The candidate record built from the score sc of the span and its penalty.
ScoredCandidate(c, sc, penalty, section) ==
    [section |-> section,
     confidence |-> Clamp(F_0_05, FAdd(sc.score, penalty), F_0_95),
     warnings |-> sc.warnings
                  \o (IF c.endFound THEN <<>> ELSE <<"end_not_found">>),
     scoreBreakdown |-> WithEndPenalty(sc.breakdown, penalty),
     lengthChars |-> TextLen(section)]

TextCandidate(c) ==
    ScoredCandidate(c, ScoreCandidate(c),
                    IF c.endFound THEN F_0_0 ELSE FNeg(F_0_2), Strip(SpanOf(c)))

\* if not best or candidate["confidence"] > best["confidence"]: best = candidate
BetterThan(cand, b) == IsNone(b) \/ cand.confidence > TheVal(b).confidence

\* extract_item1a_from_html, the body of the loop over a link that resolves.
AnchorCandidate(link) ==
    LET section == Strip(SpanOf(link))
        short == TextLen(section) < MinSectionLen
        c1 == IF link.endFound THEN F_0_9 ELSE FSub(F_0_9, F_0_2)
        c2 == IF short THEN FSub(c1, F_0_15) ELSE c1
        c3 == IF link.early THEN FSub(c2, F_0_1) ELSE c2
        c4 == IF link.toc THEN FSub(c3, F_0_15) ELSE c3
    IN  [section |-> section,
         confidence |-> Clamp(F_0_1, c4, F_0_95),
         warnings |-> (IF link.endFound THEN <<>> ELSE <<"end_not_found">>)
                      \o (IF short THEN <<"length_out_of_band">> ELSE <<>>)
                      \o (IF link.early THEN <<"early_position_penalty">> ELSE <<>>)
                      \o (IF link.toc THEN <<"toc_cluster_penalty">> ELSE <<>>),
         lengthChars |-> TextLen(section)]

\* A variant that forgets the confidence test.
AnchorAcceptedByLengthOnly(cand) == ~(cand.lengthChars < MinSectionLen)

\* A variant that forgets the length test.
AnchorAcceptedByConfidenceOnly(cand) == ~(cand.confidence < F_0_5)

\* if confidence < 0.5 or len(section) < 8000: ... continue
AnchorAccepted(cand) ==
    ~(cand.confidence < F_0_5 \/ cand.lengthChars < MinSectionLen)

\* The risk-factors fallback and the failure return of extract_item1a_from_text.
FallbackResult(fb) ==
    IF fb.risk
    THEN [section |-> Strip(SpanOf(fb)), confidence |-> F_0_35,
          method |-> "risk_factors_fallback",
          warnings |-> (IF fb.endFound THEN <<>> ELSE <<"end_not_found">>)
                       \o <<"fallback_risk_word_only">>]
    ELSE [section |-> <<>>, confidence |-> F_0_0, method |-> "not_found",
          warnings |-> <<"item1a_not_found">>]

\* A variant that never appends the warning.
ensure_low_confidence_never(errors) == errors

\* ensure_low_confidence
ensure_low_confidence(errors) ==
    IF ~Contains(errors, "low_confidence_item1a")
    THEN Append(errors, "low_confidence_item1a")
    ELSE errors

\* The gate's condition: confidence < 0.5 or not section.strip()
GateRejects(res) == res.confidence < F_0_5 \/ Strip(res.section) = <<>>

\* extract_item1a_from_html_bytes, after extract_item1a_from_html returned res.
extract_item1a_from_html_bytes(res, extra) ==
    LET warning_list == extra \o res.warnings
        paragraphs == IF res.section # <<>>
                      THEN split_paragraphs(res.section, DefaultMinChars)
                      ELSE <<>>
    IN  IF GateRejects(res)
        THEN [text |-> <<>>, paragraphs |-> <<>>, confidence |-> res.confidence,
              method |-> res.method,
              warnings |-> ensure_low_confidence(warning_list)]
        ELSE [text |-> res.section, paragraphs |-> paragraphs,
              confidence |-> res.confidence, method |-> res.method,
              warnings |-> warning_list]

\* build_missing_extraction
build_missing_extraction ==
    [text |-> <<>>, paragraphs |-> <<>>, confidence |-> F_0_0, method |-> "no_html",
     warnings |-> ensure_low_confidence(<<"html_missing">>)]

\* The warnings main() may pass to the gate, in the order it appends them.
ExtraWarningLists ==
    { a \o b \o c :
        a \in {<<>>, <<"alternate_primary_doc_used">>},
        b \in {<<>>, <<"primary_doc_too_small">>},
        c \in {<<>>, <<"submission_text_extracted">>} }

(***************************************************************************)
(* SpecExtract: one call of extract_item1a_from_html_bytes (or of          *)
(* build_missing_extraction when the download failed), stepped through the *)
(* extractor's states.                                                     *)
(***************************************************************************)
MaxLinks == 2
MaxCands == 2

PipelineIdle ==
    /\ ppc = "idle" /\ seen_years = {} /\ filings_out = <<>>
    /\ metrics_sections = <<>> /\ quality_sections = <<>>
    /\ lastFilingDate = None /\ nProcessed = 0 /\ lastCall = None
    /\ artifacts = None

MetricsIdle ==
    /\ mpc = "idle" /\ sections = <<>> /\ canonical_terms = None /\ built = None

QualityIdle ==
    /\ qpc = "idle" /\ q_sections = <<>> /\ q_shifts = <<>> /\ q_pairs = None

CompilerIdle ==
    /\ cpc = "idle" /\ c_file = None /\ c_args = "" /\ c_exit = None
    /\ c_stderr = <<>> /\ c_written = None

DownloadIdle ==
    /\ dpc = "idle" /\ attempt = 0 /\ clock = 0 /\ last_time = 0
    /\ last_response = None /\ d_log = <<>> /\ d_result = None

BootstrapIdle == b_sections = <<>> /\ b_runs = <<>>

CacheIdle == k_files = <<>> /\ k_report = None

Writers == {1, 2}

WriteIdle ==
    /\ fs_dir = [target |-> None, tmp |-> None] /\ fs_inodes = <<>>
    /\ w_pc = [w \in Writers |-> "idle"] /\ w_handle = [w \in Writers |-> None]
    /\ w_offset = [w \in Writers |-> 0] /\ w_prev = [w \in Writers |-> None]
    /\ w_alone = [w \in Writers |-> TRUE]

CandidatesIdle == x_doc = <<>> /\ x_found = None

TokensIdle == t_raw = <<>> /\ t_out = None

ExtIdle == CacheIdle /\ WriteIdle /\ CandidatesIdle /\ TokensIdle

AuxIdle == QualityIdle /\ CompilerIdle /\ DownloadIdle /\ BootstrapIdle /\ ExtIdle

NonePassed == [meeting |-> 0, failing |-> 0]

ExtractIdle ==
    /\ pc = "idle" /\ trail = <<>> /\ html = "unread" /\ extra_warnings = <<>>
    /\ anchor_warnings = <<>> /\ linkIdx = 0 /\ candIdx = 0 /\ best = None
    /\ yieldedHigh = FALSE /\ result = None /\ out = None
    /\ went_past = NonePassed

CoreIdle == ExtractIdle /\ PipelineIdle /\ MetricsIdle

InitExtract ==
    /\ pc = "start" /\ trail = <<"start">> /\ html = "unread"
    /\ extra_warnings = <<>> /\ anchor_warnings = <<>>
    /\ linkIdx = 0 /\ candIdx = 0 /\ best = None /\ yieldedHigh = FALSE
    /\ result = None /\ out = None
    /\ went_past = NonePassed
    /\ PipelineIdle /\ MetricsIdle /\ AuxIdle

\* What the loops can compute for one link or one candidate.
AnchorOutcomes ==
    {[resolve |-> link.resolve, cand |-> AnchorCandidate(link)] : link \in AnchorLinks}

ScoredTextCandidates == {TextCandidate(c) : c \in TextCandidates}

FallbackResults == {FallbackResult(fb) : fb \in FallbackInputs}

\* The anchor loop continues past cand: one more candidate that met, or that
\* failed, `confidence >= 0.5 and length >= 8000` (counted up to two).
Passing(seen, cand) ==
    IF cand.confidence >= F_0_5 /\ TextLen(cand.section) >= MinSectionLen
    THEN [seen EXCEPT !.meeting = Min(2, @ + 1)]
    ELSE [seen EXCEPT !.failing = Min(2, @ + 1)]

\* The extractor returns res: the gate decides between accept and reject.
Return(res) ==
    LET gated == extract_item1a_from_html_bytes(res, extra_warnings)
        next == IF GateRejects(res) THEN "reject" ELSE "accept"
    IN  /\ result' = Some(res)
        /\ out' = Some(gated)
        /\ pc' = next
        /\ trail' = Append(trail, next)

\* main(): the download failed, html_bytes is None.
MissingHtml ==
    /\ pc = "start"
    /\ html' = "missing"
    /\ out' = Some(build_missing_extraction)
    /\ pc' = "reject"
    /\ trail' = Append(trail, "reject")
    /\ UNCHANGED <<extra_warnings, anchor_warnings, linkIdx, candIdx, best, yieldedHigh,
                   result>>
    /\ UNCHANGED went_past
    /\ UNCHANGED <<plVars, mtVars, auxVars>>

\* main(): html_bytes is there; extract_item1a_from_html collects the anchor links.
BeginExtract ==
    /\ pc = "start"
    /\ \E ew \in ExtraWarningLists : extra_warnings' = ew
    /\ html' = "present"
    /\ pc' = "anchor-scan"
    /\ trail' = Append(trail, "anchor-scan")
    /\ UNCHANGED <<anchor_warnings, linkIdx, candIdx, best, yieldedHigh, result, out>>
    /\ UNCHANGED went_past
    /\ UNCHANGED <<plVars, mtVars, auxVars>>

\* One iteration of the loop over anchor_links.
AnchorStep ==
    /\ pc = "anchor-scan"
    /\ linkIdx < MaxLinks
    /\ \E link \in AnchorOutcomes :
         LET cand == link.cand
         IN  /\ linkIdx' = linkIdx + 1
             /\ IF link.resolve # "ok"
                THEN UNCHANGED <<anchor_warnings, yieldedHigh, went_past, result, out, pc, trail>>
                ELSE /\ yieldedHigh' = (yieldedHigh \/ cand.confidence >= F_0_5)
                     /\ IF AnchorAccepted(cand)
                        THEN /\ Return([section |-> cand.section,
                                        confidence |-> cand.confidence,
                                        method |-> "html_anchor",
                                        warnings |-> cand.warnings])
                             /\ UNCHANGED <<anchor_warnings, went_past>>
                        ELSE /\ anchor_warnings' =
                                  IF ~Contains(anchor_warnings, "anchor_low_confidence")
                                  THEN Append(anchor_warnings, "anchor_low_confidence")
                                  ELSE anchor_warnings
                             /\ went_past' = Passing(went_past, cand)
                             /\ UNCHANGED <<result, out, pc, trail>>
    /\ UNCHANGED <<html, extra_warnings, candIdx, best>>
    /\ UNCHANGED <<plVars, mtVars, auxVars>>

\* The loop over anchor_links ends without a return.
AnchorExhausted ==
    /\ pc = "anchor-scan"
    /\ anchor_warnings' = Append(anchor_warnings, "anchor_missing")
    /\ pc' = "text-scan"
    /\ trail' = Append(trail, "text-scan")
    /\ UNCHANGED <<html, extra_warnings, linkIdx, candIdx, best, yieldedHigh, result, out>>
    /\ UNCHANGED went_past
    /\ UNCHANGED <<plVars, mtVars, auxVars>>

\* One iteration of the loop over the text candidates.
TextStep ==
    /\ pc = "text-scan"
    /\ candIdx < MaxCands
    /\ \E cand \in ScoredTextCandidates :
         /\ candIdx' = candIdx + 1
         /\ yieldedHigh' = (yieldedHigh \/ cand.confidence >= F_0_5)
         /\ best' = IF BetterThan(cand, best) THEN Some(cand) ELSE best
    /\ UNCHANGED <<html, extra_warnings, anchor_warnings, linkIdx, result, out, pc, trail>>
    /\ UNCHANGED went_past
    /\ UNCHANGED <<plVars, mtVars, auxVars>>

\* The loop over the candidates is over: `if best: return ...`, else the fallback.
TextDone ==
    /\ pc = "text-scan"
    /\ IF ~IsNone(best)
       THEN Return([section |-> TheVal(best).section,
                    confidence |-> TheVal(best).confidence,
                    method |-> "text_scored",
                    warnings |-> anchor_warnings \o TheVal(best).warnings])
       ELSE /\ pc' = "fallback-scan"
            /\ trail' = Append(trail, "fallback-scan")
            /\ UNCHANGED <<result, out>>
    /\ UNCHANGED <<html, extra_warnings, anchor_warnings, linkIdx, candIdx, best, yieldedHigh>>
    /\ UNCHANGED went_past
    /\ UNCHANGED <<plVars, mtVars, auxVars>>

\* RISK_FACTORS.search(text) or RISK_FACTORS_SLOPPY.search(text), and the return.
FallbackScan ==
    /\ pc = "fallback-scan"
    /\ \E res \in FallbackResults :
         /\ yieldedHigh' = (yieldedHigh \/ res.confidence >= F_0_5)
         /\ Return([res EXCEPT !.warnings = anchor_warnings \o res.warnings])
    /\ UNCHANGED <<html, extra_warnings, anchor_warnings, linkIdx, candIdx, best>>
    /\ UNCHANGED went_past
    /\ UNCHANGED <<plVars, mtVars, auxVars>>

NextExtract ==
    \/ MissingHtml
    \/ BeginExtract
    \/ AnchorStep
    \/ AnchorExhausted
    \/ TextStep
    \/ TextDone
    \/ FallbackScan

SpecExtract == InitExtract /\ [][NextExtract]_vars

(***************************************************************************)
(* Claims about the extractor.                                             *)
(***************************************************************************)
Terminal == pc \in {"accept", "reject"}
Visited(st) == Contains(trail, st)
LowConfidence == "low_confidence_item1a"

\* The extractor's states are visited in the order start, anchor-scan, text-scan,
\* fallback-scan, terminal, none of them twice.
TrailInOrder ==
    LET rank(st) == CASE st = "start" -> 0
                      [] st = "anchor-scan" -> 1
                      [] st = "text-scan" -> 2
                      [] st = "fallback-scan" -> 3
                      [] OTHER -> 4
    IN  /\ \A i \in 1..(Len(trail) - 1) : rank(trail[i]) < rank(trail[i + 1])
        /\ Visited("text-scan") => Visited("anchor-scan")
        /\ Visited("fallback-scan") => Visited("text-scan")
        /\ pc \in {"text-scan", "fallback-scan"} => IsNone(result)

\* C1 as stated: the three paths are tried in order; accept exactly when some path
\* computed a section of confidence >= 0.5; reject only after all three paths,
\* the fallback included, have been tried.
C1_AsStated ==
    /\ TrailInOrder
    /\ (Terminal /\ html = "present") =>
          /\ (pc = "accept") <=> yieldedHigh
          /\ (pc = "reject") =>
                (Visited("anchor-scan") /\ Visited("text-scan") /\ Visited("fallback-scan"))

\* C1 (amended): the paths are tried in the order anchor, text-scored, fallback,
\* each only after the one before returned nothing; the extraction ends in accept
\* exactly when the result the extractor returned has confidence >= 0.5, and in
\* reject only after the anchor and the text-scored paths were tried, the fallback
\* being tried exactly when the text-scored path had no candidate.
C1_PathOrder ==
    /\ TrailInOrder
    /\ (Terminal /\ html = "present") =>
          /\ ~IsNone(result)
          /\ (pc = "accept") <=> (TheVal(result).confidence >= F_0_5)
          /\ (pc = "reject") =>
                /\ Visited("anchor-scan") /\ Visited("text-scan")
                /\ Visited("fallback-scan") <=> IsNone(best)

\* A text-scored result below 0.5 ends the extraction in reject.
C1_Witness ==
    /\ pc = "reject" /\ html = "present"
    /\ ~IsNone(best)
    /\ TheVal(result).method = "text_scored"

\* C2: when the gate rejects (confidence < 0.5 or blank section, or the hypertext is
\* missing) the returned text and paragraphs are empty and the warnings hold
\* low_confidence_item1a exactly once; when it passes, the warning is not added and
\* the section text is returned unchanged.
C2_LowConfidenceGate ==
    ~IsNone(out) =>
        LET o == TheVal(out)
            rejected == o.text = <<>> /\ o.paragraphs = <<>>
                        /\ CountIn(o.warnings, LowConfidence) = 1
        IN  IF html = "missing" THEN rejected
            ELSE LET r == TheVal(result)
                 IN  IF r.confidence < F_0_5 \/ Strip(r.section) = <<>>
                     THEN rejected /\ pc = "reject"
                     ELSE /\ o.text = r.section
                          /\ o.warnings = extra_warnings \o r.warnings
                          /\ CountIn(o.warnings, LowConfidence) = 0
                          /\ pc = "accept"

\* The gate rejected a fallback section, with warnings from the caller in front.
C2_Witness ==
    /\ pc = "reject" /\ html = "present"
    /\ TheVal(result).method = "risk_factors_fallback"
    /\ extra_warnings # <<>>
    /\ TheVal(out).text = <<>>
    /\ TheVal(result).section # <<>>

(***************************************************************************)
(* Words.  A chunk reads as a sequence of words (maximal runs of           *)
(* non-blank characters, lowercased where the code lowercases), followed   *)
(* by figures up to the chunk's length, and ends a sentence.  A word is    *)
(* either letters only or holds no run of two letters ("2020", "1a").      *)
(***************************************************************************)
RECURSIVE Rep(_, _)
Rep(s, n) == IF n <= 0 THEN <<>> ELSE s \o Rep(s, n - 1)

ChunkWords ==
    [ws |-> <<>>,
     hdr |-> <<"item", "1a", "risk", "factors">>,
     num |-> <<"2020", "10", "31">>,
     stopw |-> <<"the", "and", "of">>,
     p150 |-> <<"we", "may", "face", "litigation">>,
     p300 |-> <<"supply", "chain", "risk", "and", "supply", "chain", "cost">>,
     p9k |-> Rep(<<"cyber", "attack", "risk", "climate", "change", "demand",
                   "growth", "ai">>, 10)
             \o Rep(<<"data", "breach">>, 4),
     p20k |-> Rep(<<"cyber", "attack", "risk", "supply", "chain", "cost", "demand",
                    "growth">>, 10)
              \o <<"mr", "smith", "said", "the", "supply", "of", "chain", "inc">>,
     p90k |-> <<"demand", "growth", "ai", "risk">>,
     p500k |-> <<"tables", "of", "figures">>,
     \* p300 with a line break and an indentation in place of one of its spaces
     p300nl |-> <<"supply", "chain", "risk", "and", "supply", "chain", "cost">>,
     q219 |-> <<"cyber", "attack", "risk">>,
     \* q219 with a line break and an indentation in place of one of its spaces
     q221nl |-> <<"cyber", "attack", "risk">>,
     q220 |-> <<"cyber", "attack", "risk", "demand">>,
     q2600 |-> Rep(<<"cyber", "attack">>, 4) \o <<"demand", "growth">>,
     q2601 |-> Rep(<<"cyber", "attack">>, 4) \o <<"demand", "growth">>,
     \* tables: 55 and 56 digits in 250 characters
     q250d |-> <<"cyber", "risk", "2020", "10", "31">>,
     q250dd |-> <<"cyber", "risk", "2020", "10", "31">>,
     q250stop |-> <<"the", "and", "of", "we">>,
     \* paragraphs of one to four terms, each term once
     ba |-> <<"cyber">>,
     bb |-> <<"supply">>,
     bc |-> <<"climate">>,
     bd |-> <<"labor">>,
     bab |-> <<"cyber", "and", "supply">>,
     bcd |-> <<"climate", "and", "labor">>,
     bacd |-> <<"cyber", "climate", "and", "labor">>,
     babcd |-> <<"cyber", "supply", "climate", "and", "labor">>]

WordsOf(t) ==
    LET RECURSIVE cat(_)
        cat(u) == IF u = <<>> THEN <<>> ELSE ChunkWords[Head(u).id] \o cat(Tail(u))
    IN  cat(t)

NonLetterWords == {"2020", "10", "31", "1a"}

\* The words of sklearn's ENGLISH_STOP_WORDS that the model's texts use.
STOPWORDS == {"the", "and", "of", "we", "may", "us", "co", "inc", "ie", "me"}
HONORIFICS == {"mr", "mrs", "ms", "miss", "dr", "prof", "sir", "madam"}
NAME_SUFFIXES == {"jr", "sr", "ii", "iii", "iv", "phd", "md"}
NOISE_TOKENS == {"inc", "corp", "ltd", "co", "company", "u", "s", "us", "usa"}
ALLOWED_SHORT_TOKENS == {"ai", "ml", "ip", "it", "vr", "ar"}

\* re.findall(r"[a-z]{2,}", text.lower())
RawTokens(t) == SelectSeq(WordsOf(t), LAMBDA w : w \notin NonLetterWords /\ Len(w) >= 2)

\* tokenize, the body of the loop for one raw token: (tokens appended, skip_next)
TokenStep(token, skip_next) ==
    IF skip_next THEN [tokens |-> <<>>, skip_next |-> FALSE]
    ELSE IF token \in HONORIFICS THEN [tokens |-> <<>>, skip_next |-> TRUE]
    ELSE IF token \in NAME_SUFFIXES \/ token \in NOISE_TOKENS
         THEN [tokens |-> <<>>, skip_next |-> FALSE]
    ELSE IF token \in STOPWORDS THEN [tokens |-> <<>>, skip_next |-> FALSE]
    ELSE IF Len(token) < 3 /\ token \notin ALLOWED_SHORT_TOKENS
         THEN [tokens |-> <<>>, skip_next |-> FALSE]
    ELSE [tokens |-> <<token>>, skip_next |-> FALSE]

\* tokenize, the loop over raw[lo..hi] entered with skip_next (the range is halved
\* to keep the evaluation shallow; the tokens are visited left to right).
RECURSIVE TokenizeRange(_, _, _, _)
TokenizeRange(raw, lo, hi, skip_next) ==
    IF lo > hi THEN [tokens |-> <<>>, skip_next |-> skip_next]
    ELSE IF lo = hi THEN TokenStep(raw[lo], skip_next)
    ELSE LET mid == (lo + hi) \div 2
             left == TokenizeRange(raw, lo, mid, skip_next)
             right == TokenizeRange(raw, mid + 1, hi, left.skip_next)
         IN  [tokens |-> left.tokens \o right.tokens, skip_next |-> right.skip_next]

\* tokenize
tokenize(t) ==
    LET raw == RawTokens(t)
    IN  TokenizeRange(raw, 1, Len(raw), FALSE).tokens

\* TfidfVectorizer(stop_words="english", token_pattern=r"(?u)\b[a-zA-Z]{2,}\b"):
\* the terms one document contributes.
VectorizerTokens(t) == SelectSeq(RawTokens(t), LAMBDA w : w \notin STOPWORDS)

(***************************************************************************)
(* build_metrics (sec_metrics.py): the validity gate, the drift arrays and *)
(* the similarity matrix.  A SectionYear is a record [year, text,          *)
(* paragraphs, confidence], the confidence None or Some(double).           *)
(*                                                                         *)
(* A cosine similarity is kept as the class of its value: "1.0" (the two   *)
(* tf-idf vectors are parallel), "0.0" (they share no term, or one of them *)
(* is zero) or "between"; a drift 1 - sim likewise.  The bootstrap bounds  *)
(* are kept as "p5" and "p95": only whether they are null is modelled.     *)
(***************************************************************************)
SectionYear(year, text, confidence) ==
    [year |-> year, text |-> text,
     paragraphs |-> split_paragraphs(text, DefaultMinChars),
     confidence |-> confidence]

\* A variant that lets a confidence below 0.5 through.
is_valid_section_any_confidence(section) == Strip(section.text) # <<>>

\* is_valid_section
is_valid_section(section) ==
    IF Strip(section.text) = <<>> THEN FALSE
    ELSE IF ~IsNone(section.confidence) /\ TheVal(section.confidence) < F_0_5 THEN FALSE
    ELSE TRUE

\* normalize_paragraphs
normalize_paragraphs(text, paragraphs) ==
    LET cleaned == SelectSeq(paragraphs, LAMBDA c : ~IsBlankChunk(c))
        stripped == Strip(text)
        split == split_paragraphs(stripped, DefaultMinChars)
    IN  IF cleaned # <<>> THEN cleaned
        ELSE IF stripped = <<>> THEN <<>>
        ELSE IF split # <<>> THEN split
        ELSE <<stripped>>

\* sentence_tokens: every non-blank chunk ends a sentence.
sentence_tokens(text) == SelectSeq(text, LAMBDA c : ~IsBlankChunk(c))

\* round(n / d, 2), in hundredths (ties, exact only for d a power of two, to even).
RoundHundredths(n, d) ==
    LET q == (100 * n) \div d
        r == (100 * n) % d
    IN  IF 2 * r > d \/ (2 * r = d /\ q % 2 = 1) THEN q + 1 ELSE q

\* boilerplate_score, rounded by round_value: None or Some(hundredths)
boilerplate_score(prev_text, curr_text) ==
    LET curr_sentences == sentence_tokens(curr_text)
        prev_set == Range(sentence_tokens(prev_text))
        reused == Cardinality({i \in 1..Len(curr_sentences) : curr_sentences[i] \in prev_set})
    IN  IF curr_sentences = <<>> THEN None
        ELSE Some(RoundHundredths(reused, Len(curr_sentences)))

\* compute_bootstrap_ci, rounded by round_value: (low, high)
compute_bootstrap_ci(prev_section, curr_section) ==
    LET prev_paragraphs == normalize_paragraphs(prev_section.text, prev_section.paragraphs)
        curr_paragraphs == normalize_paragraphs(curr_section.text, curr_section.paragraphs)
    IN  IF prev_paragraphs = <<>> \/ curr_paragraphs = <<>>
        THEN [low |-> None, high |-> None]
        ELSE [low |-> Some("p5"), high |-> Some("p95")]

\* The vocabulary TfidfVectorizer.fit_transform learns from valid_texts; the fit
\* raises ValueError("empty vocabulary") when it is empty.
Vocabulary(texts) == UNION {Range(VectorizerTokens(texts[i])) : i \in 1..Len(texts)}

\* cosine_similarity of the tf-idf rows of two documents of the fitted corpus.
CosineClass(a, b) ==
    LET ta == VectorizerTokens(a)
        tb == VectorizerTokens(b)
        terms == Range(ta) \cup Range(tb)
    IN  IF Range(ta) \cap Range(tb) = {} THEN "0.0"
        ELSE IF \A u, v \in terms :
                   CountIn(ta, u) * CountIn(tb, v) = CountIn(ta, v) * CountIn(tb, u)
             THEN "1.0"
        ELSE "between"

\* 1 - float(sim), rounded by round_value
DriftOf(sim) == CASE sim = "1.0" -> "0.0" [] sim = "0.0" -> "1.0" [] OTHER -> "between"

(***************************************************************************)
(* Terms.  A term is the sequence of its tokens (the code joins them with  *)
(* one space); a Counter is a function from terms to positive counts.      *)
(***************************************************************************)
Get(counts, term) == IF term \in DOMAIN counts THEN counts[term] ELSE 0

CounterOf(items) == [x \in Range(items) |-> CountIn(items, x)]

\* Counter.update(other)
Update(c1, c2) == [x \in (DOMAIN c1) \cup (DOMAIN c2) |-> Get(c1, x) + Get(c2, x)]

\* sum(counts[x] for x in S)
RECURSIVE SumCounts(_, _)
SumCounts(counts, S) ==
    IF S = {} THEN 0
    ELSE LET x == CHOOSE y \in S : TRUE IN counts[x] + SumCounts(counts, S \ {x})

\* sum(counts.values())
Total(counts) == SumCounts(counts, DOMAIN counts)

\* has_repeated_tokens
has_repeated_tokens(tokens) ==
    \E i, j \in 1..Len(tokens) : i < j /\ tokens[i] = tokens[j]

\* Two equal adjacent tokens (what bigrams() refuses to build).
HasAdjacentDuplicate(tokens) ==
    \E i \in 1..(Len(tokens) - 1) : tokens[i] = tokens[i + 1]

\* bigrams
bigrams(tokens) ==
    SelectSeq([i \in 1..(Len(tokens) - 1) |-> <<tokens[i], tokens[i + 1]>>],
              LAMBDA pair : pair[1] # pair[2])

SEC_PHRASE_ALLOWLIST ==
    { <<"artificial", "intelligence">>, <<"machine", "learning">>,
      <<"data", "security">>, <<"cyber", "security">>, <<"cybersecurity", "incident">>,
      <<"information", "security">>, <<"data", "privacy">>, <<"privacy", "regulation">>,
      <<"regulatory", "compliance">>, <<"government", "regulation">>,
      <<"trade", "restrictions">>, <<"export", "controls">>, <<"interest", "rates">>,
      <<"foreign", "exchange">>, <<"inflationary", "pressures">>, <<"supply", "chain">>,
      <<"supply", "disruption">>, <<"customer", "demand">>,
      <<"competitive", "landscape">>, <<"market", "share">>, <<"pricing", "pressure">>,
      <<"gross", "margin">>, <<"operating", "margin">>, <<"credit", "risk">>,
      <<"liquidity", "risk">>, <<"going", "concern">>, <<"material", "weakness">>,
      <<"internal", "controls">>, <<"financial", "reporting">>,
      <<"intellectual", "property">>, <<"patent", "infringement">>,
      <<"product", "liability">>, <<"class", "action">>, <<"litigation", "matters">>,
      <<"geopolitical", "tensions">>, <<"political", "instability">>,
      <<"climate", "change">>, <<"environmental", "regulation">>,
      <<"human", "capital">>, <<"talent", "retention">>, <<"labor", "shortages">>,
      <<"business", "continuity">>, <<"disaster", "recovery">> }

\* count_allowlist_phrases: the matches of each phrase among the words of the text
count_allowlist_phrases(text) ==
    LET words == WordsOf(text)
        hits(phrase) == Cardinality({i \in 1..(Len(words) - Len(phrase) + 1) :
                                        SubSeq(words, i, i + Len(phrase) - 1) = phrase})
        found == {phrase \in SEC_PHRASE_ALLOWLIST : hits(phrase) > 0}
    IN  [phrase \in found |-> hits(phrase)]

PmiMinCount == 4
PmiRatio == 16

\* pmi_keep_bigrams: log2(p_xy / (p_x * p_y)) >= 4.0, as c_xy * T^2 >= 16 * B * c_x * c_y
pmi_keep_bigrams(token_lists) ==
    LET all == [i \in 1..Len(token_lists) |-> token_lists[i]]
        total_tokens == SumSeq([i \in 1..Len(all) |-> Len(all[i])])
        total_bigrams == SumSeq([i \in 1..Len(all) |-> Len(bigrams(all[i]))])
        uni(w) == SumSeq([i \in 1..Len(all) |-> CountIn(all[i], w)])
        bi(pair) == SumSeq([i \in 1..Len(all) |-> CountIn(bigrams(all[i]), pair)])
        pairs == UNION {Range(bigrams(all[i])) : i \in 1..Len(all)}
    IN  IF total_tokens = 0 \/ total_bigrams = 0 THEN {}
        ELSE {pair \in pairs :
                /\ bi(pair) >= PmiMinCount
                /\ uni(pair[1]) # 0 /\ uni(pair[2]) # 0
                /\ bi(pair) * total_tokens * total_tokens
                     >= PmiRatio * total_bigrams * uni(pair[1]) * uni(pair[2])}

MinKeyphraseTokens == 80
MinCandidateFreq == 3
MaxPhraseTokens == 3
MinPhraseCount == 2

\* textrank_keyphrases, the phrase a run of `run` top tokens ending at `last` gives
RunPhrase(tokens, run, last) ==
    LET phrase_tokens == SubSeq(tokens, last - run + 1, last)
    IN  IF run >= 2 /\ ~has_repeated_tokens(phrase_tokens)
        THEN <<phrase_tokens>> ELSE <<>>

\* textrank_keyphrases, the scan `while i < len(tokens)` over tokens[lo..hi], entered
\* with a run of `run` top tokens open: (phrases closed, run left open).  A run
\* closes at a token outside top_set or at three tokens.
RECURSIVE PhraseScan(_, _, _, _, _)
PhraseScan(tokens, top_set, lo, hi, run) ==
    IF lo > hi THEN [phrases |-> <<>>, run |-> run]
    ELSE IF lo = hi
    THEN IF tokens[lo] \notin top_set
         THEN [phrases |-> RunPhrase(tokens, run, lo - 1), run |-> 0]
         ELSE IF run = MaxPhraseTokens
         THEN [phrases |-> RunPhrase(tokens, run, lo - 1), run |-> 1]
         ELSE [phrases |-> <<>>, run |-> run + 1]
    ELSE LET mid == (lo + hi) \div 2
             left == PhraseScan(tokens, top_set, lo, mid, run)
             right == PhraseScan(tokens, top_set, mid + 1, hi, left.run)
         IN  [phrases |-> left.phrases \o right.phrases, run |-> right.run]

\* textrank_keyphrases.  ranked[:top_keywords] keeps every candidate when there are
\* at most 60 of them, and most_common(max_phrases) every phrase when there are at
\* most 250: a text of the model has fewer distinct words than that.
textrank_keyphrases(text) ==
    LET tokens == tokenize(text)
        n == Len(tokens)
        top_set == {w \in Range(tokens) : CountIn(tokens, w) >= MinCandidateFreq}
        scanned == PhraseScan(tokens, top_set, 1, n, 0)
        phrases == CounterOf(scanned.phrases \o RunPhrase(tokens, scanned.run, n))
        kept == {ph \in DOMAIN phrases : phrases[ph] >= MinPhraseCount}
    IN  IF n < MinKeyphraseTokens THEN <<>>
        ELSE [ph \in kept |-> phrases[ph]]

\* The words of the model in the order of Python's str comparison.
WordOrder ==
    <<"10", "1a", "2020", "31", "Cyber", "Supply", "ai", "and", "attack",
      "breach", "chain", "change", "climate", "cost", "cyber", "data", "demand",
      "face", "factors", "figures", "growth", "inc", "item", "litigation", "may",
      "mr", "of", "risk", "said", "smith", "supply", "tables", "the", "we">>

WordRank(w) == CHOOSE i \in 1..Len(WordOrder) : WordOrder[i] = w

\* term_a < term_b for the joined strings: token by token, a prefix first.
RECURSIVE TermLess(_, _)
TermLess(a, b) ==
    IF b = <<>> THEN FALSE
    ELSE IF a = <<>> THEN TRUE
    ELSE IF Head(a) # Head(b) THEN WordRank(Head(a)) < WordRank(Head(b))
    ELSE TermLess(Tail(a), Tail(b))

\* sorted(S, key): the sequence of the set S under the strict total order Less.
SortedSeq(S, Less(_, _)) ==
    LET placed == {<<1 + Cardinality({y \in S : Less(y, x)}), x>> : x \in S}
    IN  [i \in 1..Cardinality(S) |-> (CHOOSE p \in placed : p[1] = i)[2]]

\* str.lower() of a word
Lower(w) == CASE w = "Supply" -> "supply" [] w = "Cyber" -> "cyber"
              [] OTHER -> w

\* normalize_canonical_term: the words carry no hyphen and no punctuation
normalize_canonical_term(term) == [i \in 1..Len(term) |-> Lower(term[i])]

\* len(value) of the joined string
CharLen(term) == SumSeq([i \in 1..Len(term) |-> Len(term[i])]) + Max(0, Len(term) - 1)

\* sort_variants: key (-token_count, -len(value), value)
sort_variants(variants) ==
    LET cleaned == {v \in variants : v # <<>>}
        before(a, b) ==
            LET ta == Len(normalize_canonical_term(a))
                tb == Len(normalize_canonical_term(b))
            IN  \/ ta > tb
                \/ ta = tb /\ CharLen(a) > CharLen(b)
                \/ ta = tb /\ CharLen(a) = CharLen(b) /\ TermLess(a, b)
    IN  SortedSeq(cleaned, before)

\* CanonicalTermsMap values load_canonical_terms can return (None: no usable file).
CanonicalMaps ==
    { None,
      Some([variant_to_concept |->
                (<<"supply", "chain">> :> "supply_chain") @@ (<<"cyber">> :> "cyber")
                @@ (<<"cyber", "attack">> :> "cyber") @@ (<<"growth">> :> "gone"),
            concept_labels |->
                ("supply_chain" :> <<"Supply", "chain">>)
                @@ ("cyber" :> <<"Cyber", "attack">>)]),
      Some([variant_to_concept |-> (<<"cost">> :> "cost") @@ (<<"risk">> :> "risk"),
            concept_labels |->
                ("cost" :> <<"cost", "cost">>) @@ ("risk" :> <<"risk">>)]) }

\* canonicalize_counts: (output, includes)
canonicalize_counts(counts, ct) ==
    LET labelOf(term) ==
            LET normalized == normalize_canonical_term(term)
                concept_id == IF normalized \in DOMAIN ct.variant_to_concept
                              THEN ct.variant_to_concept[normalized] ELSE ""
            IN  IF concept_id # "" /\ concept_id \in DOMAIN ct.concept_labels
                THEN ct.concept_labels[concept_id] ELSE <<>>
        kept == {term \in DOMAIN counts : counts[term] > 0 /\ term # <<>>}
        key(term) == IF labelOf(term) # <<>> THEN labelOf(term) ELSE term
        variantsOf(label) == {term \in kept : labelOf(term) = label}
        sumOver(k) == SumCounts(counts, {term \in kept : key(term) = k})
    IN  [output |-> [k \in {key(term) : term \in kept} |-> sumOver(k)],
         includes |-> [label \in {labelOf(term) : term \in kept} \ {<<>>} |->
                          variantsOf(label)]]

\* merge_includes
merge_includes(first, second) ==
    [term \in (DOMAIN first) \cup (DOMAIN second) |->
        sort_variants((IF term \in DOMAIN first THEN first[term] ELSE {})
                      \cup (IF term \in DOMAIN second THEN second[term] ELSE {}))]

\* The sign of a/b - c/d for positive integers, without the cross products.
RECURSIVE CmpFrac(_, _, _, _)
CmpFrac(a, b, c, d) ==
    LET qa == a \div b
        qc == c \div d
        ra == a % b
        rc == c % d
    IN  IF qa # qc THEN (IF qa < qc THEN 0 - 1 ELSE 1)
        ELSE IF ra = 0 /\ rc = 0 THEN 0
        ELSE IF ra = 0 THEN 0 - 1
        ELSE IF rc = 0 THEN 1
        ELSE CmpFrac(d, rc, b, ra)

TermLimit == 15
AlphaInverse == 100

\* log_odds_stats (alpha = 0.01).  score = log(oddsNum / oddsDen): the entry keeps
\* the fraction, which orders the entries as their scores do.
log_odds_stats(counts_prev, counts_curr) ==
    LET vocab == (DOMAIN counts_prev) \cup (DOMAIN counts_curr)
        total_prev == Total(counts_prev)
        total_curr == Total(counts_curr)
        vocab_size == Cardinality(vocab)
        entry(term) ==
            LET c_prev == Get(counts_prev, term)
                c_curr == Get(counts_curr, term)
                denom_prev == AlphaInverse * (total_prev - c_prev) + vocab_size
                denom_curr == AlphaInverse * (total_curr - c_curr) + vocab_size
            IN  [term |-> term, countPrev |-> c_prev, countCurr |-> c_curr,
                 oddsNum |-> (AlphaInverse * c_curr + 1) * denom_prev,
                 oddsDen |-> (AlphaInverse * c_prev + 1) * denom_curr]
    IN  {entry(term) : term \in vocab}

ScoreCmp(a, b) == CmpFrac(a.oddsNum, a.oddsDen, b.oddsNum, b.oddsDen)

\* A variant that lists a term among the risers only when its score is positive.
sorted_risers_positive_only(stats) ==
    SortedSeq({e \in stats : e.oddsNum > e.oddsDen},
              LAMBDA a, b : \/ ScoreCmp(a, b) = 1
                            \/ ScoreCmp(a, b) = 0 /\ TermLess(a.term, b.term))

\* sorted(stats.values(), key=lambda item: (-item["score"], item["term"]))
sorted_risers(stats) ==
    SortedSeq(stats, LAMBDA a, b : \/ ScoreCmp(a, b) = 1
                                   \/ ScoreCmp(a, b) = 0 /\ TermLess(a.term, b.term))

\* A variant that breaks the ties by descending term.
sorted_fallers_ties_reversed(stats) ==
    SortedSeq(stats, LAMBDA a, b : \/ ScoreCmp(a, b) = 0 - 1
                                   \/ ScoreCmp(a, b) = 0 /\ TermLess(b.term, a.term))

\* sorted(stats.values(), key=lambda item: (item["score"], item["term"]))
sorted_fallers(stats) ==
    SortedSeq(stats, LAMBDA a, b : \/ ScoreCmp(a, b) = 0 - 1
                                   \/ ScoreCmp(a, b) = 0 /\ TermLess(a.term, b.term))

\* build_shift_term_outputs: the first `limit` items, with their includes
build_shift_term_outputs(items, includes_by_term) ==
    [i \in 1..Min(TermLimit, Len(items)) |->
        [term |-> items[i].term,
         countPrev |-> items[i].countPrev,
         countCurr |-> items[i].countCurr,
         includes |-> IF items[i].term \in DOMAIN includes_by_term
                      THEN includes_by_term[items[i].term] ELSE <<>>]]

\* build_alt_terms
build_alt_terms(items) ==
    [i \in 1..Min(TermLimit, Len(items)) |-> [term |-> items[i].term]]

\* build_term_counts_primary
build_term_counts_primary(text, bigram_keep) ==
    LET toks == tokenize(text)
        unigrams == CounterOf([i \in 1..Len(toks) |-> <<toks[i]>>])
        kept == CounterOf(SelectSeq(bigrams(toks), LAMBDA pair : pair \in bigram_keep))
    IN  Update(Update(unigrams, kept), count_allowlist_phrases(text))

\* build_term_counts_alt
build_term_counts_alt(text) ==
    Update(textrank_keyphrases(text), count_allowlist_phrases(text))

MinAltTerms == 10

\* A variant that keeps every alternate selection.
alt_path_kept_always(top_risers_alt, top_fallers_alt) == TRUE

\* if (len(top_risers_alt) + len(top_fallers_alt)) >= 10
alt_path_kept(top_risers_alt, top_fallers_alt) ==
    Len(top_risers_alt) + Len(top_fallers_alt) >= MinAltTerms

\* The keys `if top_risers_alt or top_fallers_alt:` adds to the payload.
AltKeys == {"topRisersAlt", "topFallersAlt", "summaryAlt"}

\* build_metrics, the body of the loop over adjacent entries of valid_sections
ShiftPair(prev_section, curr_section, bigram_keep, ct) ==
    LET raw_prev == build_term_counts_primary(prev_section.text, bigram_keep)
        raw_curr == build_term_counts_primary(curr_section.text, bigram_keep)
        canon_prev == canonicalize_counts(raw_prev, TheVal(ct))
        canon_curr == canonicalize_counts(raw_curr, TheVal(ct))
        counts_prev == IF IsNone(ct) THEN raw_prev ELSE canon_prev.output
        counts_curr == IF IsNone(ct) THEN raw_curr ELSE canon_curr.output
        includes_by_term == IF IsNone(ct) THEN <<>>
                            ELSE merge_includes(canon_prev.includes, canon_curr.includes)
        stats == log_odds_stats(counts_prev, counts_curr)
        stats_alt == log_odds_stats(build_term_counts_alt(prev_section.text),
                                    build_term_counts_alt(curr_section.text))
        selected_risers_alt == build_alt_terms(sorted_risers(stats_alt))
        selected_fallers_alt == build_alt_terms(sorted_fallers(stats_alt))
        alt_kept == alt_path_kept(selected_risers_alt, selected_fallers_alt)
        top_risers_alt == IF alt_kept THEN selected_risers_alt ELSE <<>>
        top_fallers_alt == IF alt_kept THEN selected_fallers_alt ELSE <<>>
    IN  [from |-> prev_section.year,
         to |-> curr_section.year,
         topRisers |-> build_shift_term_outputs(sorted_risers(stats), includes_by_term),
         topFallers |-> build_shift_term_outputs(sorted_fallers(stats), includes_by_term),
         topRisersAlt |-> top_risers_alt,
         topFallersAlt |-> top_fallers_alt,
         altKeys |-> IF top_risers_alt # <<>> \/ top_fallers_alt # <<>>
                     THEN AltKeys ELSE {}]

\* A variant whose loop starts at the first section.
DriftLoopRangeFromFirst(n) == 1..n

\* for idx in range(1, len(sections)), the positions counted from 1
DriftLoopRange(n) == 2..n

\* A variant that stops one pair early.
ShiftLoopRangeShort(m) == 1..(m - 2)

\* for idx in range(1, len(valid_sections)), the pairs counted from 1
ShiftLoopRange(m) == 1..(m - 1)

\* build_metrics: what it returns, or the exception it lets through.
build_metrics(secs, ct) ==
    LET n == Len(secs)
        years == [i \in 1..n |-> secs[i].year]
        valid_sections == SelectSeq(secs, is_valid_section)
        m == Len(valid_sections)
        valid_years == [i \in 1..m |-> valid_sections[i].year]
        valid_texts == [i \in 1..m |-> valid_sections[i].text]
        \* valid_index = {year: idx ...}: the last index of a year wins
        in_index(year) == \E i \in 1..m : valid_years[i] = year
        valid_index(year) == CHOOSE i \in 1..m :
                                /\ valid_years[i] = year
                                /\ \A j \in 1..m : valid_years[j] = year => j <= i
        raw_similarity(i, j) == CosineClass(valid_texts[i], valid_texts[j])
        \* sections[idx - 1]: Python reads index -1 as the last element
        prev(idx) == secs[IF idx = 1 THEN n ELSE idx - 1]
        paired(idx) == /\ idx \in DriftLoopRange(n)
                       /\ in_index(prev(idx).year)
                       /\ in_index(secs[idx].year)
        drift(idx) == DriftOf(raw_similarity(valid_index(prev(idx).year),
                                             valid_index(secs[idx].year)))
        ci(idx) == compute_bootstrap_ci(prev(idx), secs[idx])
        bigram_keep == pmi_keep_bigrams([i \in 1..m |-> tokenize(valid_texts[i])])
    IN  IF m > 0 /\ Vocabulary(valid_texts) = {}
        THEN [status |-> "raised", error |-> "ValueError"]
        ELSE [status |-> "returned",
              metrics |->
                [years |-> years,
                 drift_vs_prev |->
                    [idx \in 1..n |-> IF paired(idx) THEN Some(drift(idx)) ELSE None],
                 drift_ci_low |->
                    [idx \in 1..n |-> IF paired(idx) THEN ci(idx).low ELSE None],
                 drift_ci_high |->
                    [idx \in 1..n |-> IF paired(idx) THEN ci(idx).high ELSE None],
                 boilerplate_score |->
                    [idx \in 1..n |->
                        IF paired(idx)
                        THEN boilerplate_score(prev(idx).text, secs[idx].text)
                        ELSE None]],
              similarity |->
                [years |-> valid_years,
                 cosineSimilarity |->
                    [i \in 1..m |-> [j \in 1..m |->
                        IF i = j THEN "1.0" ELSE raw_similarity(i, j)]]],
              shifts |->
                [yearPairs |->
                    [k \in ShiftLoopRange(m) |->
                        ShiftPair(valid_sections[k], valid_sections[k + 1],
                                  bigram_keep, ct)]]]

(***************************************************************************)
(* SpecMetrics and SpecTerms: main() of sec_metrics.py, the sections       *)
(* loaded one by one in the order of their years and build_metrics applied *)
(* to the list.  SpecMetrics loads short sections of every validity;       *)
(* SpecTerms loads valid sections, long ones among them, under a           *)
(* canonical-terms map.                                                    *)
(***************************************************************************)
MaxSections == 3
MaxTermSections == 2
FirstYear == 2019

\* 0.5 + 0.2 - 0.2 in doubles: 0.49999999999999994
JustBelowHalf == FSub(FAdd(F_0_5, F_0_2), F_0_2)

SectionKinds ==
    { [text |-> <<>>, confidence |-> None],
      [text |-> <<Chunk("ws")>>, confidence |-> Some(F_0_95)],
      [text |-> <<Chunk("p300")>>, confidence |-> None],
      [text |-> <<Chunk("p300")>>, confidence |-> Some(JustBelowHalf)],
      [text |-> <<Chunk("p90k")>>, confidence |-> Some(F_0_5)],
      [text |-> <<Chunk("p150"), Chunk("ws"), Chunk("p300")>>, confidence |-> Some(F_0_9)],
      [text |-> <<Chunk("num")>>, confidence |-> Some(F_0_9)],
      [text |-> <<Chunk("hdr"), Chunk("p300")>>, confidence |-> Some(F_0_35)] }

TermKinds ==
    { [text |-> <<Chunk("p9k")>>, confidence |-> Some(F_0_9)],
      [text |-> <<Chunk("p20k")>>, confidence |-> Some(F_0_9)],
      [text |-> <<Chunk("p300")>>, confidence |-> Some(F_0_5)],
      [text |-> <<Chunk("p90k")>>, confidence |-> None],
      [text |-> <<Chunk("hdr"), Chunk("p9k"), Chunk("p300")>>, confidence |-> Some(F_0_95)] }

InitMetrics ==
    /\ mpc = "input"
    /\ sections = <<>>
    /\ canonical_terms = None
    /\ built = None
    /\ ExtractIdle /\ PipelineIdle /\ AuxIdle

InitTerms ==
    /\ mpc = "input"
    /\ sections = <<>>
    /\ canonical_terms \in CanonicalMaps
    /\ built = None
    /\ ExtractIdle /\ PipelineIdle /\ AuxIdle

\* load_sections_from_json: the next entry of the sorted list, of one of the given
\* kinds, its year the previous entry's year plus one of the given steps.
Load(kinds, steps, max) ==
    /\ mpc = "input"
    /\ Len(sections) < max
    /\ \E kind \in kinds, step \in steps :
         LET year == IF sections = <<>> THEN FirstYear
                     ELSE sections[Len(sections)].year + step
         IN  sections' = Append(sections, SectionYear(year, kind.text, kind.confidence))
    /\ UNCHANGED <<mpc, canonical_terms, built>>
    /\ UNCHANGED <<exVars, plVars, auxVars>>

LoadSection == Load(SectionKinds, {0, 1}, MaxSections)

LoadTermSection == Load(TermKinds, {1}, MaxTermSections)

\* main() of sec_metrics.py: it exits when there is no section, otherwise
\* metrics, similarity, shifts = build_metrics(sections)
BuildMetrics ==
    /\ mpc = "input"
    /\ sections # <<>>
    /\ built' = Some(build_metrics(sections, canonical_terms))
    /\ mpc' = "built"
    /\ UNCHANGED <<sections, canonical_terms>>
    /\ UNCHANGED <<exVars, plVars, auxVars>>

NextMetrics == LoadSection \/ BuildMetrics

NextTerms == LoadTermSection \/ BuildMetrics

SpecMetrics == InitMetrics /\ [][NextMetrics]_vars

SpecTerms == InitTerms /\ [][NextTerms]_vars

(***************************************************************************)
(* Claims about build_metrics.                                             *)
(***************************************************************************)
Returned == ~IsNone(built) /\ TheVal(built).status = "returned"
Raised == ~IsNone(built) /\ TheVal(built).status = "raised"

DistinctYears ==
    \A i, j \in 1..Len(sections) : i < j => sections[i].year < sections[j].year

\* A section the validity gate keeps: its text is not blank and its confidence is
\* not below 0.5.
Kept(i) ==
    /\ Strip(sections[i].text) # <<>>
    /\ IsNone(sections[i].confidence) \/ ~(TheVal(sections[i].confidence) < F_0_5)

Excluded(i) == ~Kept(i)

NullAt(i) ==
    LET mt == TheVal(built).metrics
    IN  /\ mt.drift_vs_prev[i] = None /\ mt.drift_ci_low[i] = None
        /\ mt.drift_ci_high[i] = None /\ mt.boilerplate_score[i] = None

\* C3: for sections of ascending distinct years, a year is in the similarity years
\* exactly when its section has a non-blank text and a confidence not below 0.5, and
\* drift_vs_prev, drift_ci_low, drift_ci_high and boilerplate_score are null at
\* every position whose section, or whose predecessor, is excluded.
C3_ValidityGate ==
    (Returned /\ DistinctYears) =>
        /\ \A i \in 1..Len(sections) :
              (sections[i].year \in Range(TheVal(built).similarity.years)) <=> Kept(i)
        /\ \A i \in 1..Len(sections) :
              (Excluded(i) \/ (i > 1 /\ Excluded(i - 1))) => NullAt(i)

\* Three years, the last one excluded for a confidence just below 0.5: a drift at
\* the second position, none at the third.
C3_Witness ==
    /\ Returned /\ DistinctYears /\ Len(sections) = 3
    /\ Kept(1) /\ Kept(2) /\ Excluded(3)
    /\ Strip(sections[3].text) # <<>>
    /\ TheVal(built).metrics.drift_vs_prev[2] # None
    /\ NullAt(3)
    /\ Len(TheVal(built).similarity.years) = 2

PairYears == [k \in 1..Len(TheVal(built).shifts.yearPairs) |->
                 <<TheVal(built).shifts.yearPairs[k].from,
                   TheVal(built).shifts.yearPairs[k].to>>]

KeptYears == LET kept == SelectSeq([i \in 1..Len(sections) |-> i], Kept)
             IN  [k \in 1..Len(kept) |-> sections[kept[k]].year]

\* C4 as stated: a shift pair is emitted exactly for the positions i >= 1 whose
\* sections i-1 and i are both valid, from years[i-1] to years[i]: the pairs are the
\* positions of a non-null drift, and none spans an excluded year.
C4_AsStated ==
    (Returned /\ DistinctYears) =>
        LET both == SelectSeq([i \in 1..Len(sections) |-> i],
                              LAMBDA i : i > 1 /\ Kept(i - 1) /\ Kept(i))
        IN  /\ PairYears = [k \in 1..Len(both) |->
                              <<sections[both[k] - 1].year, sections[both[k]].year>>]
            /\ \A i \in 1..Len(sections) :
                  (TheVal(built).metrics.drift_vs_prev[i] # None)
                     <=> (\E k \in 1..Len(PairYears) : PairYears[k][2] = sections[i].year)

\* C4 (amended): the shift pairs are the pairs of consecutive valid sections, in
\* order: pair k runs from the k-th to the (k+1)-th valid year, so a pair spans the
\* excluded years that lie between two valid ones.  The drift at position i is
\* non-null exactly when sections i-1 and i are both valid, so every position of a
\* non-null drift has its pair, and a pair has a non-null drift only when its two
\* years are adjacent in the input.
C4_ShiftPairs ==
    (Returned /\ DistinctYears) =>
        /\ PairYears = [k \in 1..(Len(KeptYears) - 1) |-> <<KeptYears[k], KeptYears[k + 1]>>]
        /\ \A i \in 1..Len(sections) :
              (TheVal(built).metrics.drift_vs_prev[i] # None)
                 <=> (i > 1 /\ Kept(i - 1) /\ Kept(i))
        /\ \A i \in 2..Len(sections) :
              (Kept(i - 1) /\ Kept(i))
                 => (\E k \in 1..Len(PairYears) :
                        PairYears[k] = <<sections[i - 1].year, sections[i].year>>)

\* A valid, an excluded and a valid year: one pair across the excluded year, and no
\* drift anywhere.
C4_Witness ==
    /\ Returned /\ DistinctYears /\ Len(sections) = 3
    /\ Kept(1) /\ Excluded(2) /\ Kept(3)
    /\ PairYears = <<<<sections[1].year, sections[3].year>>>>
    /\ \A i \in 1..3 : TheVal(built).metrics.drift_vs_prev[i] = None

MetricArrays ==
    LET mt == TheVal(built).metrics
    IN  <<mt.drift_vs_prev, mt.drift_ci_low, mt.drift_ci_high, mt.boilerplate_score>>

\* C8: whenever build_metrics returns, for every input (one with no valid section
\* included), years lists the input's years and drift_vs_prev, drift_ci_low,
\* drift_ci_high and boilerplate_score each have len(years) entries, the first null.
C8_ArraysAligned ==
    Returned =>
        /\ TheVal(built).metrics.years = [i \in 1..Len(sections) |-> sections[i].year]
        /\ \A k \in 1..Len(MetricArrays) :
              /\ Len(MetricArrays[k]) = Len(TheVal(built).metrics.years)
              /\ Len(MetricArrays[k]) > 0 => MetricArrays[k][1] = None

\* Three valid sections: every array has three entries, null at the first position
\* and not at the second.
C8_Witness ==
    /\ Returned /\ Len(sections) = 3
    /\ \A k \in 1..Len(MetricArrays) :
          /\ Len(MetricArrays[k]) = 3
          /\ MetricArrays[k][1] = None /\ MetricArrays[k][2] # None

\* The vectorizer has nothing to fit: no section is valid, or no valid section holds
\* a word of the vocabulary.
Unfit == \A i \in 1..Len(sections) : Kept(i) => VectorizerTokens(sections[i].text) = <<>>

\* C9 as stated: on a corpus the vectorizer cannot fit, build_metrics does not fail:
\* it returns an empty similarity matrix and an empty yearPairs list.
C9_AsStated ==
    (~IsNone(built) /\ Unfit) =>
        /\ Returned
        /\ TheVal(built).similarity.cosineSimilarity = <<>>
        /\ TheVal(built).shifts.yearPairs = <<>>

ShiftTermLists ==
    UNION { {pair.topRisers, pair.topFallers, pair.topRisersAlt, pair.topFallersAlt} :
              pair \in Range(TheVal(built).shifts.yearPairs) }

\* C10 as stated: no term of topRisers, topFallers, topRisersAlt or topFallersAlt of
\* any shift pair has two equal adjacent tokens, whatever the texts and the
\* canonical-terms map.
C10_AsStated ==
    Returned =>
        \A list \in ShiftTermLists : \A i \in 1..Len(list) :
            ~HasAdjacentDuplicate(list[i].term)

\* The statistics of the k-th shift pair, computed from the two sections it joins.
ValidSections == SelectSeq(sections, is_valid_section)

PairStats(k) ==
    LET keep == pmi_keep_bigrams([i \in 1..Len(ValidSections) |->
                                     tokenize(ValidSections[i].text)])
        raw_prev == build_term_counts_primary(ValidSections[k].text, keep)
        raw_curr == build_term_counts_primary(ValidSections[k + 1].text, keep)
    IN  IF IsNone(canonical_terms) THEN log_odds_stats(raw_prev, raw_curr)
        ELSE log_odds_stats(canonicalize_counts(raw_prev, TheVal(canonical_terms)).output,
                            canonicalize_counts(raw_curr, TheVal(canonical_terms)).output)

\* The alternate statistics of the k-th shift pair.
PairAltStats(k) ==
    log_odds_stats(build_term_counts_alt(ValidSections[k].text),
                   build_term_counts_alt(ValidSections[k + 1].text))

\* a comes before b among the risers (fallers): the higher (lower) score first, the
\* smaller term string first among equal scores.
RiserBefore(a, b) ==
    ScoreCmp(a, b) = 1 \/ (ScoreCmp(a, b) = 0 /\ TermLess(a.term, b.term))
FallerBefore(a, b) ==
    ScoreCmp(a, b) = 0 - 1 \/ (ScoreCmp(a, b) = 0 /\ TermLess(a.term, b.term))

\* `list` holds the first min(15, |stats|) entries of stats under Before, each once.
IsTopOf(list, stats, Before(_, _)) ==
    LET entryOf(i) == CHOOSE e \in stats : e.term = list[i].term
    IN  /\ Len(list) = Min(15, Cardinality(stats))
        /\ \A i \in 1..Len(list) : \E e \in stats : e.term = list[i].term
        /\ \A i, j \in 1..Len(list) : i < j => Before(entryOf(i), entryOf(j))
        /\ \A e \in stats :
              (\A i \in 1..Len(list) : list[i].term # e.term)
                 => \A i \in 1..Len(list) : Before(entryOf(i), e)

\* C11: for every shift pair, topRisers is the first min(15, |vocabulary|) terms of
\* the pair's vocabulary by descending score, ties by ascending term string, and
\* topFallers the first min(15, |vocabulary|) by ascending score, ties by ascending
\* term string; no list exceeds 15 entries or repeats a term.
C11_TopTerms ==
    Returned =>
        \A k \in 1..Len(TheVal(built).shifts.yearPairs) :
            LET pair == TheVal(built).shifts.yearPairs[k]
            IN  /\ IsTopOf(pair.topRisers, PairStats(k), RiserBefore)
                /\ IsTopOf(pair.topFallers, PairStats(k), FallerBefore)
                /\ Len(pair.topRisers) <= 15 /\ Len(pair.topFallers) <= 15

\* A pair of more than 15 terms, two of equal score among its fallers: the lists
\* stop at 15 and differ.
C11_Witness ==
    /\ Returned /\ Len(TheVal(built).shifts.yearPairs) >= 1
    /\ LET pair == TheVal(built).shifts.yearPairs[1]
           stats == PairStats(1)
       IN  /\ Cardinality(stats) > 15
           /\ Len(pair.topRisers) = 15 /\ Len(pair.topFallers) = 15
           /\ pair.topRisers[1].term # pair.topFallers[1].term
           /\ \E a, b \in stats :
                 /\ a.term = pair.topFallers[1].term /\ b.term = pair.topFallers[2].term
                 /\ ScoreCmp(a, b) = 0

\* C12: in every shift pair the keys topRisersAlt, topFallersAlt and summaryAlt are
\* all present or all absent; they are present iff the alternate selection (up to 15
\* risers and up to 15 fallers of the alternate statistics) holds at least 10 terms;
\* no pair carries an alternate list when the two lists hold fewer than 10.
C12_AltGate ==
    Returned =>
        \A k \in 1..Len(TheVal(built).shifts.yearPairs) :
            LET pair == TheVal(built).shifts.yearPairs[k]
                selected == 2 * Min(15, Cardinality(PairAltStats(k)))
                present == pair.altKeys # {}
            IN  /\ pair.altKeys \in {{}, {"topRisersAlt", "topFallersAlt", "summaryAlt"}}
                /\ present <=> selected >= 10
                /\ present => Len(pair.topRisersAlt) + Len(pair.topFallersAlt) = selected
                /\ ~present => pair.topRisersAlt = <<>> /\ pair.topFallersAlt = <<>>

\* A pair whose alternate selection holds at least 10 terms and fewer than 30: it
\* carries the three keys and the selected lists.
C12_Witness ==
    /\ Returned /\ Len(TheVal(built).shifts.yearPairs) = 1
    /\ Cardinality(PairAltStats(1)) \in 5..14
    /\ TheVal(built).shifts.yearPairs[1].altKeys # {}
    /\ Len(TheVal(built).shifts.yearPairs[1].topRisersAlt) = Cardinality(PairAltStats(1))

(***************************************************************************)
(* The per-filing loop of sec_fetch_and_build.py.  A date is the sequence  *)
(* of the characters of its string ("2020-01-31", "2020", "").             *)
(***************************************************************************)
DigitChars == <<"0", "1", "2", "3", "4", "5", "6", "7", "8", "9">>

IsDigit(c) == \E d \in 1..10 : DigitChars[d] = c
DigitVal(c) == (CHOOSE d \in 1..10 : DigitChars[d] = c) - 1

\* str.isdigit()
IsDigits(cs) == cs # <<>> /\ \A i \in 1..Len(cs) : IsDigit(cs[i])

\* int(text) of a string of digits
RECURSIVE IntOf(_)
IntOf(cs) == IF cs = <<>> THEN 0
             ELSE 10 * IntOf(SubSeq(cs, 1, Len(cs) - 1)) + DigitVal(cs[Len(cs)])

\* The characters of a number, zero-padded to `width` digits.
RECURSIVE Digits(_, _)
Digits(n, width) ==
    IF width = 0 THEN <<>>
    ELSE Append(Digits(n \div 10, width - 1), DigitChars[(n % 10) + 1])

\* "YYYY-MM-15"
IsoDate(year, month) == Digits(year, 4) \o <<"-">> \o Digits(month, 2) \o <<"-", "1", "5">>

\* a < b for the strings: "-" sorts before the digits
CharRank(c) == IF IsDigit(c) THEN DigitVal(c) + 1 ELSE 0

RECURSIVE StrLess(_, _)
StrLess(a, b) ==
    IF b = <<>> THEN FALSE
    ELSE IF a = <<>> THEN TRUE
    ELSE IF Head(a) # Head(b) THEN CharRank(Head(a)) < CharRank(Head(b))
    ELSE StrLess(Tail(a), Tail(b))

\* parse_year_from_date
parse_year_from_date(value) ==
    IF value = <<>> THEN None
    ELSE LET year_text == SubSeq(value, 1, Min(4, Len(value)))
         IN  IF IsDigits(year_text) THEN Some(IntOf(year_text)) ELSE None

\* parse_month_from_date
parse_month_from_date(value) ==
    IF Len(value) < 7 \/ value[5] # "-" THEN None
    ELSE LET month_text == SubSeq(value, 6, 7)
         IN  IF ~IsDigits(month_text) THEN None ELSE Some(IntOf(month_text))

\* A variant that returns a year already taken.
derive_filing_year_unchecked(report_date, filing_date, seen) ==
    LET first == parse_year_from_date(report_date)
    IN  IF IsNone(first) \/ TheVal(first) = 0 THEN parse_year_from_date(filing_date)
        ELSE first

\* A variant without the filingDate fallback.
derive_filing_year_no_fallback(report_date, filing_date, seen) ==
    LET year == derive_filing_year_unchecked(report_date, filing_date, seen)
        month == parse_month_from_date(report_date)
    IN  IF IsNone(year) THEN None
        ELSE IF TheVal(year) \notin seen THEN year
        ELSE IF ~IsNone(month) /\ TheVal(month) <= 2 /\ (TheVal(year) - 1) \notin seen
        THEN Some(TheVal(year) - 1)
        ELSE None

\* derive_filing_year
derive_filing_year(report_date, filing_date, seen) ==
    LET first == parse_year_from_date(report_date)
        \* a or b: a year 0 is falsy
        year == IF IsNone(first) \/ TheVal(first) = 0
                THEN parse_year_from_date(filing_date) ELSE first
        month == parse_month_from_date(report_date)
        filing_year == parse_year_from_date(filing_date)
    IN  IF IsNone(year) THEN None
        ELSE IF TheVal(year) \notin seen THEN year
        ELSE IF ~IsNone(month) /\ TheVal(month) <= 2 /\ (TheVal(year) - 1) \notin seen
        THEN Some(TheVal(year) - 1)
        ELSE IF ~IsNone(filing_year) /\ TheVal(filing_year) \notin seen THEN filing_year
        ELSE None

\* A variant that leaves the rows in processing order.
SortByYearSkipped(rows) == rows

\* rows.sort(key=lambda row: row.year): a stable sort
SortByYear(rows) ==
    LET before(i, j) == \/ rows[i].year < rows[j].year
                        \/ rows[i].year = rows[j].year /\ i < j
        order == SortedSeq(1..Len(rows), before)
    IN  [k \in 1..Len(rows) |-> rows[order[k]]]

\* sec_quality.is_valid_section, for a section found in sections_by_year
quality_is_valid_section(section) ==
    IF ~IsNone(section.confidence) /\ TheVal(section.confidence) < F_0_5 THEN FALSE
    ELSE section.paragraphs # <<>>

\* build_excerpt_pairs over build_quality_shifts(shifts): one pair per shift pair, in
\* the order of the shift pairs; `selected` tells whether paragraphs are selected.
build_excerpt_pairs(qsections, yearPairs) ==
    LET by_year(year) == {i \in 1..Len(qsections) : qsections[i].year = year}
        valid(year) == /\ by_year(year) # {}
                       /\ quality_is_valid_section(
                              qsections[CHOOSE i \in by_year(year) :
                                            \A j \in by_year(year) : j <= i])
    IN  [k \in 1..Len(yearPairs) |->
            [from |-> yearPairs[k].from, to |-> yearPairs[k].to,
             selected |-> valid(yearPairs[k].from) /\ valid(yearPairs[k].to)]]

(***************************************************************************)
(* SpecPipeline: main() of sec_fetch_and_build.py from the loop over the   *)
(* filings, sorted by filingDate in descending order, to the artifacts.    *)
(* The filings are drawn as the loop reaches them.                         *)
(***************************************************************************)
MaxFilings == 3

ReportDates == {<<>>, IsoDate(2021, 12), IsoDate(2021, 1)}

FilingDates == {IsoDate(2022, 2), IsoDate(2021, 3), <<>>}

\* What the extraction of one filing can give: a text-scored section that passes
\* the gate, a fallback section that the gate marks, no hypertext at all.
Extractions ==
    LET scored == TextCandidate([rest |-> <<Chunk("hdr"), Chunk("p300")>>,
                                 endFound |-> TRUE, early |-> FALSE, toc |-> FALSE,
                                 modality |-> 2, heading |-> TRUE])
    IN  { extract_item1a_from_html_bytes(
              [section |-> scored.section, confidence |-> scored.confidence,
               method |-> "text_scored",
               warnings |-> <<"anchor_missing">> \o scored.warnings], <<>>),
          extract_item1a_from_html_bytes(
              FallbackResult([risk |-> TRUE, rest |-> <<Chunk("hdr"), Chunk("p150")>>,
                              endFound |-> FALSE]), <<>>),
          build_missing_extraction }

InitPipeline ==
    /\ ppc = "loop" /\ seen_years = {} /\ filings_out = <<>>
    /\ metrics_sections = <<>> /\ quality_sections = <<>>
    /\ lastFilingDate = None /\ nProcessed = 0 /\ lastCall = None
    /\ artifacts = None
    /\ ExtractIdle /\ MetricsIdle /\ AuxIdle

\* One iteration of `for filing in filings`.
ProcessFiling ==
    /\ ppc = "loop"
    /\ nProcessed < MaxFilings
    /\ \E report_date \in ReportDates, filing_date \in FilingDates, ex \in Extractions :
         LET year == derive_filing_year(report_date, filing_date, seen_years)
         IN  /\ IF IsNone(lastFilingDate) THEN TRUE
                ELSE ~StrLess(TheVal(lastFilingDate), filing_date)
             /\ lastFilingDate' = Some(filing_date)
             /\ nProcessed' = nProcessed + 1
             /\ lastCall' = Some([report_date |-> report_date, filing_date |-> filing_date,
                                  seen |-> seen_years, year |-> year,
                                  rows |-> Len(filings_out)])
             /\ IF IsNone(year)
                THEN UNCHANGED <<seen_years, filings_out, metrics_sections, quality_sections>>
                ELSE /\ seen_years' = seen_years \cup {TheVal(year)}
                     /\ filings_out' = Append(filings_out,
                            [year |-> TheVal(year), filingDate |-> filing_date,
                             reportDate |-> report_date,
                             extraction |-> [confidence |-> ex.confidence,
                                             method |-> ex.method,
                                             errors |-> ex.warnings]])
                     /\ metrics_sections' = Append(metrics_sections,
                            [year |-> TheVal(year), text |-> ex.text,
                             paragraphs |-> ex.paragraphs,
                             confidence |-> Some(ex.confidence)])
                     /\ quality_sections' = Append(quality_sections,
                            [year |-> TheVal(year), paragraphs |-> ex.paragraphs,
                             confidence |-> Some(ex.confidence)])
    /\ UNCHANGED <<ppc, artifacts>>
    /\ UNCHANGED <<exVars, mtVars, auxVars>>

\* After the loop: the sorts, build_metrics (which loads the canonical-terms file,
\* whatever it holds), build_excerpt_pairs and the writes.
Finish ==
    /\ ppc = "loop"
    /\ nProcessed >= 1
    /\ \E ct \in CanonicalMaps :
       \E res \in {build_metrics(SortByYear(metrics_sections), ct)} :
             IF res.status = "raised"
             THEN /\ ppc' = "failed"
                  /\ UNCHANGED <<filings_out, metrics_sections, quality_sections, artifacts>>
             ELSE /\ ppc' = "done"
                  /\ metrics_sections' = SortByYear(metrics_sections)
                  /\ quality_sections' = SortByYear(quality_sections)
                  /\ filings_out' = SortByYear(filings_out)
                  /\ artifacts' = Some(
                        [filings |-> SortByYear(filings_out),
                         metrics |-> res.metrics,
                         similarity |-> res.similarity,
                         shifts |-> res.shifts,
                         excerpts |-> build_excerpt_pairs(SortByYear(quality_sections),
                                                          res.shifts.yearPairs)])
    /\ UNCHANGED <<seen_years, lastFilingDate, nProcessed, lastCall>>
    /\ UNCHANGED <<exVars, mtVars, auxVars>>

NextPipeline == ProcessFiling \/ Finish

SpecPipeline == InitPipeline /\ [][NextPipeline]_vars

(***************************************************************************)
(* Properties of the per-filing loop and of the emitted artifacts.         *)
(***************************************************************************)
Called == ~IsNone(lastCall)
Call == TheVal(lastCall)

YearsOf(rows) == [i \in 1..Len(rows) |-> rows[i].year]
PairwiseDistinct(s) == \A i, j \in 1..Len(s) : i # j => s[i] # s[j]
StrictlyAscending(s) == \A i \in 1..(Len(s) - 1) : s[i] < s[i + 1]

\* C5: the years of the emitted filings rows and of the SectionYears are pairwise
\* distinct; derive_filing_year never returns a year of seen_years; every returned
\* year is in seen_years before the next filing is processed (seen_years is the set
\* of the years of the rows); a filing without a year adds no row, any other adds
\* one row to each list.
C5_YearsUnique ==
    /\ PairwiseDistinct(YearsOf(filings_out))
    /\ PairwiseDistinct(YearsOf(metrics_sections))
    /\ PairwiseDistinct(YearsOf(quality_sections))
    /\ YearsOf(metrics_sections) = YearsOf(filings_out)
    /\ YearsOf(quality_sections) = YearsOf(filings_out)
    /\ seen_years = Range(YearsOf(filings_out))
    /\ Called =>
         /\ ~IsNone(Call.year) => TheVal(Call.year) \notin Call.seen
         /\ seen_years = Call.seen \cup Range(Call.year)
         /\ Len(filings_out) = Call.rows + Len(Call.year)

\* A filing whose report year and filing year are taken is skipped while rows of
\* earlier filings exist.
C5_Witness ==
    /\ ppc = "loop" /\ Called
    /\ IsNone(Call.year)
    /\ ~IsNone(parse_year_from_date(Call.report_date))
    /\ TheVal(parse_year_from_date(Call.report_date)) \in Call.seen
    /\ Len(filings_out) = 2 /\ nProcessed = 3

\* The year derive_filing_year starts from, and the candidates of a collision.
BaseYear == IF IsNone(parse_year_from_date(Call.report_date))
            THEN parse_year_from_date(Call.filing_date)
            ELSE parse_year_from_date(Call.report_date)
Collides == ~IsNone(BaseYear) /\ TheVal(BaseYear) \in Call.seen
JanFeb == /\ ~IsNone(parse_month_from_date(Call.report_date))
          /\ TheVal(parse_month_from_date(Call.report_date)) \in {1, 2}
PreviousFree == (TheVal(BaseYear) - 1) \notin Call.seen
FilingYearFree == /\ ~IsNone(parse_year_from_date(Call.filing_date))
                  /\ TheVal(parse_year_from_date(Call.filing_date)) \notin Call.seen

\* C6 as stated: a collision is resolved only for a reportDate of January or
\* February (year-1, then the filingDate's year, then None); any other collision
\* drops the filing; without a collision the filing keeps its year.
C6_AsStated ==
    Called =>
        /\ ~Collides => Call.year = BaseYear
        /\ Collides /\ JanFeb /\ PreviousFree => Call.year = Some(TheVal(BaseYear) - 1)
        /\ Collides /\ JanFeb /\ ~PreviousFree /\ FilingYearFree
              => Call.year = parse_year_from_date(Call.filing_date)
        /\ Collides /\ JanFeb /\ ~PreviousFree /\ ~FilingYearFree => Call.year = None
        /\ Collides /\ ~JanFeb => Call.year = None

\* C6: on a collision year-1 is tried only for a reportDate of January or February;
\* the filingDate's year is tried next on every collision, whatever the month; the
\* first unused one is returned and None when there is none.  Without a collision
\* the filing keeps its report year (the filingDate's year when reportDate has none).
C6_CollisionOrder ==
    Called =>
        /\ ~Collides => Call.year = BaseYear
        /\ Collides /\ JanFeb /\ PreviousFree => Call.year = Some(TheVal(BaseYear) - 1)
        /\ Collides /\ ~(JanFeb /\ PreviousFree) /\ FilingYearFree
              => Call.year = parse_year_from_date(Call.filing_date)
        /\ Collides /\ ~(JanFeb /\ PreviousFree) /\ ~FilingYearFree => Call.year = None

\* A December reportDate collides and the filing gets the filingDate's year.
C6_Witness ==
    /\ Called /\ Collides /\ ~JanFeb
    /\ ~IsNone(parse_month_from_date(Call.report_date))
    /\ ~IsNone(Call.year)
    /\ Call.year = parse_year_from_date(Call.filing_date)
    /\ filings_out[Len(filings_out)].year = TheVal(Call.year)

Emitted == ppc = "done" /\ ~IsNone(artifacts)
Artifacts == TheVal(artifacts)
ShiftFrom == [k \in 1..Len(Artifacts.shifts.yearPairs) |-> Artifacts.shifts.yearPairs[k].from]

\* C7: the emitted artifacts are in strictly ascending year order: the filings rows,
\* the years of the metrics and of the similarity matrix, the shift pairs (from < to,
\* ascending from); the excerpt pairs are the shift pairs' years in the same order.
C7_AscendingYears ==
    Emitted =>
        /\ StrictlyAscending(YearsOf(Artifacts.filings))
        /\ StrictlyAscending(Artifacts.metrics.years)
        /\ StrictlyAscending(Artifacts.similarity.years)
        /\ Len(Artifacts.similarity.cosineSimilarity) = Len(Artifacts.similarity.years)
        /\ \A k \in 1..Len(Artifacts.shifts.yearPairs) :
              Artifacts.shifts.yearPairs[k].from < Artifacts.shifts.yearPairs[k].to
        /\ StrictlyAscending(ShiftFrom)
        /\ Len(Artifacts.excerpts) = Len(Artifacts.shifts.yearPairs)
        /\ \A k \in 1..Len(Artifacts.excerpts) :
              /\ Artifacts.excerpts[k].from = Artifacts.shifts.yearPairs[k].from
              /\ Artifacts.excerpts[k].to = Artifacts.shifts.yearPairs[k].to

\* Three filings whose years were not assigned in ascending order give two shift
\* pairs.
C7_Witness ==
    /\ Emitted /\ Called
    /\ Len(Artifacts.filings) = 3
    /\ Len(Artifacts.shifts.yearPairs) = 2
    /\ ~IsNone(Call.year)
    /\ \E y \in Call.seen : TheVal(Call.year) < y

(***************************************************************************)
(* The excerpt selector (sec_quality.py).  A stored paragraph is one chunk;*)
(* a shift term is a record [term, score], the term a sequence of words    *)
(* and the score a double that is a multiple of 1/32, kept as the number   *)
(* of its thirty-seconds.  Paragraph scores are then multiples of 1/128    *)
(* and are kept as the number of their hundred-twenty-eighths: every sum   *)
(* the selector forms is exact in binary floating point.                   *)
(***************************************************************************)
MAX_TERMS == 15
MAX_PARAGRAPHS_PER_YEAR == 3
MinExcerptChars == 220
MaxExcerptChars == 2600
MaxDigitPercent == 22
MinWeight32 == 16
PrimaryFactor == 4
SecondaryFactor == 1

\* text[:n] of a list
Prefix(s, n) == SubSeq(s, 1, Min(n, Len(s)))

\* What normalize_excerpt_text changes in a chunk: line breaks and the white space
\* around them become one space.
NormalForm == [p300nl |-> "p300", q221nl |-> "q219"]

\* normalize_excerpt_text: the text as a list of chunks, empty for ""
normalize_excerpt_text(paragraph) ==
    IF IsBlankChunk(paragraph) THEN <<>>
    ELSE IF paragraph.id \in DOMAIN NormalForm THEN <<Chunk(NormalForm[paragraph.id])>>
    ELSE <<paragraph>>

\* compile_weighted_patterns: (term, weight) for every term that is not blank, the
\* weight max(abs(score), 0.5) in thirty-seconds
compile_weighted_patterns(terms) ==
    LET kept == SelectSeq(terms, LAMBDA item : item.term # <<>>)
    IN  [i \in 1..Len(kept) |->
            [term |-> kept[i].term, weight |-> Max(Abs(kept[i].score), MinWeight32)]]

\* A variant that lets a paragraph of any length through.
paragraph_is_candidate_any_length(paragraph) ==
    100 * ChunkDigits[paragraph.id] <= MaxDigitPercent * Max(paragraph.len, 1)

\* _paragraph_is_candidate
paragraph_is_candidate(paragraph) ==
    IF paragraph.len = 0 THEN FALSE
    ELSE IF paragraph.len < MinExcerptChars THEN FALSE
    ELSE IF paragraph.len > MaxExcerptChars THEN FALSE
    ELSE IF 100 * ChunkDigits[paragraph.id] > MaxDigitPercent * Max(paragraph.len, 1)
         THEN FALSE
    ELSE TRUE

\* len(pattern.findall(paragraph)): the matches of the term's words, scanned from the
\* left without overlap
RECURSIVE FindAll(_, _, _)
FindAll(words, term, from) ==
    IF from + Len(term) - 1 > Len(words) THEN 0
    ELSE IF SubSeq(words, from, from + Len(term) - 1) = term
         THEN 1 + FindAll(words, term, from + Len(term))
    ELSE FindAll(words, term, from + 1)

MatchCount(paragraph, pattern) == FindAll(ChunkWords[paragraph.id], pattern.term, 1)

\* The first occurrences of a list, in order.
Uniq(s) ==
    LET first == SelectSeq([i \in 1..Len(s) |-> i],
                           LAMBDA i : ~\E j \in 1..(i - 1) : s[j] = s[i])
    IN  [k \in 1..Len(first) |-> s[first[k]]]

\* score_paragraph: has_primary
has_primary(paragraph, primary) ==
    \E i \in 1..Len(primary) : MatchCount(paragraph, primary[i]) > 0

\* score_paragraph: (score, hits), the score in hundred-twenty-eighths
score_paragraph(paragraph, risers, fallers, direction) ==
    IF ~paragraph_is_candidate(paragraph) THEN [score |-> 0, hits |-> <<>>]
    ELSE LET primary == IF direction = "to" THEN risers ELSE fallers
             secondary == IF direction = "to" THEN fallers ELSE risers
             gain(patterns, factor) ==
                 SumSeq([i \in 1..Len(patterns) |->
                            factor * patterns[i].weight
                            * Min(MatchCount(paragraph, patterns[i]), 3)])
             hit(patterns) ==
                 SelectSeq(patterns, LAMBDA pt : MatchCount(paragraph, pt) > 0)
             hits == [i \in 1..Len(hit(primary) \o hit(secondary)) |->
                         (hit(primary) \o hit(secondary))[i].term]
         IN  IF ~has_primary(paragraph, primary)
             THEN [score |-> 0, hits |-> <<>>]
             ELSE [score |-> gain(primary, PrimaryFactor)
                             + gain(secondary, SecondaryFactor),
                   hits |-> Uniq(hits)]

(***************************************************************************)
(* select_top_paragraphs.  The tf-idf cosines of the diversification are   *)
(* not computed: a cosine is exactly 0.0 when the two texts share no       *)
(* vocabulary term and lies in (0, 1] (up to rounding) otherwise, and the  *)
(* operator gives every selection that some cosines in that range         *)
(* produce.  Maximal-marginal-relevance values are kept in 1/640.          *)
(***************************************************************************)
RelevanceUnit == 5
DiversityLambda640 == 224

\* The vocabulary a text gives TfidfVectorizer(stop_words="english"): its unigrams
\* (every bigram is made of two of them).
ExcerptVocabulary(text) == Range(ChunkWords[text.id]) \ STOPWORDS

\* select_top_paragraphs: the scored list before it is sorted
ScoredParagraphs(paragraphs, year, risers, fallers, direction) ==
    LET item(idx) ==
            LET normalized == normalize_excerpt_text(paragraphs[idx + 1])
            IN  IF normalized = <<>> THEN <<>>
                ELSE LET sc == score_paragraph(normalized[1], risers, fallers, direction)
                     IN  IF sc.score <= 0 THEN <<>>
                         ELSE <<[year |-> year, paragraphIndex |-> idx,
                                 text |-> normalized[1], score |-> sc.score,
                                 hits |-> sc.hits]>>
        items == SelectSeq([i \in 1..Len(paragraphs) |-> item(i - 1)],
                           LAMBDA o : o # <<>>)
    IN  [i \in 1..Len(items) |-> items[i][1]]

\* scored.sort(key=lambda item: (-item["score"], len(item["text"]))): a stable sort
SortScored(scored) ==
    LET before(i, j) == \/ scored[i].score > scored[j].score
                        \/ /\ scored[i].score = scored[j].score
                           /\ \/ scored[i].text.len < scored[j].text.len
                              \/ scored[i].text.len = scored[j].text.len /\ i < j
        order == SortedSeq(1..Len(scored), before)
    IN  [k \in 1..Len(scored) |-> scored[order[k]]]

\* The paragraph records that are returned.
ParagraphRecords(items) ==
    [i \in 1..Len(items) |->
        [year |-> items[i].year, paragraphIndex |-> items[i].paragraphIndex,
         text |-> items[i].text]]

\* mmr of candidate idx against the selected ones: its bounds, and whether it is exact
Mmr(scored, idx, selected) ==
    LET relevance == RelevanceUnit * scored[idx].score
        apart == \A k \in 1..Len(selected) :
                     ExcerptVocabulary(scored[idx].text)
                         \cap ExcerptVocabulary(scored[selected[k]].text) = {}
    IN  IF selected = <<>> \/ apart
        THEN [lo |-> relevance, hi |-> relevance, exact |-> TRUE]
        ELSE [lo |-> relevance - DiversityLambda640, hi |-> relevance, exact |-> FALSE]

\* Candidate c can end the scan of the candidates as best_idx although d is scanned too.
CanBeat(scored, selected, c, d) ==
    LET mc == Mmr(scored, c, selected)
        md == Mmr(scored, d, selected)
    IN  IF mc.exact /\ md.exact
        THEN IF d < c THEN mc.hi > md.hi ELSE mc.hi >= md.hi
        ELSE mc.hi >= md.lo

\* A variant of the loop condition that never stops at max_paragraphs.
selection_open_unbounded(selected, candidates, max_paragraphs) == candidates # {}

\* while candidates and len(selected) < max_paragraphs
selection_open(selected, candidates, max_paragraphs) ==
    candidates # {} /\ Len(selected) < max_paragraphs

\* The while loop of select_top_paragraphs: every `selected` it can end with.
RECURSIVE MmrSelections(_, _, _, _)
MmrSelections(scored, selected, candidates, max_paragraphs) ==
    IF ~selection_open(selected, candidates, max_paragraphs) THEN {selected}
    ELSE LET best_idx == {c \in candidates :
                             \A d \in candidates \ {c} : CanBeat(scored, selected, c, d)}
         IN  UNION {MmrSelections(scored, Append(selected, c), candidates \ {c},
                                  max_paragraphs) : c \in best_idx}

\* selected_items.sort(key=lambda item: -item["score"]): a stable sort
SortSelected(scored, selected) ==
    LET before(i, j) == \/ scored[selected[i]].score > scored[selected[j]].score
                        \/ scored[selected[i]].score = scored[selected[j]].score /\ i < j
        order == SortedSeq(1..Len(selected), before)
    IN  [k \in 1..Len(selected) |-> scored[selected[order[k]]]]

\* select_top_paragraphs: the lists it can return
select_top_paragraphs(paragraphs, year, risers, fallers, direction, max_paragraphs) ==
    LET scored == SortScored(ScoredParagraphs(paragraphs, year, risers, fallers,
                                              direction))
        texts == {scored[i].text : i \in 1..Len(scored)}
    IN  IF scored = <<>> THEN {<<>>}
        ELSE IF \A text \in texts : ExcerptVocabulary(text) = {}
             THEN {ParagraphRecords(Prefix(scored, max_paragraphs))}
        ELSE {ParagraphRecords(SortSelected(scored, selected)) :
                 selected \in MmrSelections(scored, <<>>, 1..Len(scored),
                                            max_paragraphs)}

\* build_highlight_terms
build_highlight_terms(top_risers, top_fallers) ==
    LET terms == Prefix(top_risers, MAX_TERMS) \o Prefix(top_fallers, MAX_TERMS)
    IN  Uniq(SelectSeq([i \in 1..Len(terms) |-> terms[i].term], LAMBDA t : t # <<>>))

\* sections_by_year.get(year): None, or the last section of that year
SectionOfYear(secs, year) ==
    LET at == {i \in 1..Len(secs) : secs[i].year = year}
    IN  IF at = {} THEN None ELSE Some(secs[CHOOSE i \in at : \A j \in at : j <= i])

\* sec_quality.is_valid_section
is_valid_excerpt_section(section) ==
    IF IsNone(section) THEN FALSE ELSE quality_is_valid_section(TheVal(section))

\* build_excerpt_pairs, the body of the loop for one shift: the pairs it can append
ExcerptPairsOf(secs, shift) ==
    LET from_section == SectionOfYear(secs, shift.from_year)
        to_section == SectionOfYear(secs, shift.to_year)
        riser_patterns == compile_weighted_patterns(Prefix(shift.top_risers, MAX_TERMS))
        faller_patterns == compile_weighted_patterns(Prefix(shift.top_fallers, MAX_TERMS))
        pair(representative) ==
            [from |-> shift.from_year, to |-> shift.to_year,
             highlightTerms |-> build_highlight_terms(shift.top_risers, shift.top_fallers),
             representativeParagraphs |-> representative]
    IN  IF is_valid_excerpt_section(from_section) /\ is_valid_excerpt_section(to_section)
        THEN {pair(to_side \o from_side) :
                 to_side \in select_top_paragraphs(
                                 TheVal(to_section).paragraphs, shift.to_year,
                                 riser_patterns, faller_patterns, "to",
                                 MAX_PARAGRAPHS_PER_YEAR),
                 from_side \in select_top_paragraphs(
                                   TheVal(from_section).paragraphs, shift.from_year,
                                   riser_patterns, faller_patterns, "from",
                                   MAX_PARAGRAPHS_PER_YEAR)}
        ELSE {pair(<<>>)}

\* build_excerpt_pairs with the paragraph selection: the lists of pairs it can return
RECURSIVE ExcerptPairs(_, _)
ExcerptPairs(secs, shifts) ==
    IF shifts = <<>> THEN {<<>>}
    ELSE {<<first>> \o rest : first \in ExcerptPairsOf(secs, Head(shifts)),
                              rest \in ExcerptPairs(secs, Tail(shifts))}

(***************************************************************************)
(* SpecQuality: main() of sec_quality.py on a two-year input.  The         *)
(* sections are loaded entry by entry; the first entry ranges over every   *)
(* paragraph list of up to MaxParagraphs paragraphs (the kinds in a fixed  *)
(* order), a later entry over a few lists.  The shifts file holds at most  *)
(* one pair, from FirstYear to the year after it.                          *)
(***************************************************************************)
MaxParagraphs == 4

ParagraphKinds ==
    <<"p150", "p300", "p300nl", "q221nl", "q220", "q2600", "q2601", "q250d",
      "q250dd", "q250stop">>

RECURSIVE KindLists(_, _)
KindLists(n, lo) ==
    IF n = 0 THEN {<<>>}
    ELSE UNION {{<<Chunk(ParagraphKinds[k])>> \o rest : rest \in KindLists(n - 1, k)} :
                   k \in lo..Len(ParagraphKinds)}

ParagraphLists(max) == UNION {KindLists(n, 1) : n \in 0..max}

\* The entries of the input file: "paragraphs" and "confidence" (the "text" is empty).
FirstEntries(max) ==
    {[paragraphs |-> paras, confidence |-> None] : paras \in ParagraphLists(max)}
    \cup {[paragraphs |-> <<Chunk("p300")>>, confidence |-> Some(F_0_35)]}

LaterEntries ==
    {[paragraphs |-> <<>>, confidence |-> None],
     [paragraphs |-> <<Chunk("q2600"), Chunk("p300")>>, confidence |-> Some(F_0_9)],
     [paragraphs |-> <<Chunk("q2600"), Chunk("p300nl"), Chunk("q220"), Chunk("p300")>>,
      confidence |-> None],
     [paragraphs |-> <<Chunk("p300")>>, confidence |-> Some(F_0_35)]}

ShiftYears == {FirstYear, FirstYear + 1}

ShiftTerm(term, score) == [term |-> term, score |-> score]

\* Eleven terms that match nothing, to fill a list of top terms.
FillerTerms == [i \in 1..11 |-> ShiftTerm(<<"pandemic">>, 32)]

\* The pairs of the shifts file: topRisers and topFallers, the scores in 1/32.
ShiftKinds ==
    LET shift(risers, fallers) ==
            [from_year |-> FirstYear, to_year |-> FirstYear + 1,
             top_risers |-> risers, top_fallers |-> fallers]
    IN  { shift(<<ShiftTerm(<<"supply", "chain">>, 64), ShiftTerm(<<"cyber">>, 8)>>,
                <<ShiftTerm(<<"demand", "growth">>, 0 - 48),
                  ShiftTerm(<<"risk">>, 0 - 16)>>),
          shift(<<ShiftTerm(<<"the">>, 32), ShiftTerm(<<>>, 96)>>,
                <<ShiftTerm(<<"cyber", "attack">>, 0 - 32),
                  ShiftTerm(<<"cost">>, 0 - 40)>>),
          shift(<<ShiftTerm(<<"face">>, 96), ShiftTerm(<<"litigation">>, 80),
                  ShiftTerm(<<"may">>, 72), ShiftTerm(<<"cyber">>, 48)>> \o FillerTerms
                    \o <<ShiftTerm(<<"cost">>, 4)>>,
                <<ShiftTerm(<<"supply", "chain">>, 0 - 64)>>),
          shift(<<>>, <<ShiftTerm(<<"risk">>, 0 - 16), ShiftTerm(<<"demand">>, 0)>>) }

InitQuality ==
    /\ qpc = "input" /\ q_sections = <<>> /\ q_shifts = <<>> /\ q_pairs = None
    /\ CoreIdle /\ CompilerIdle /\ DownloadIdle /\ BootstrapIdle /\ ExtIdle

\* load_sections_from_json: one more entry of the input file
LoadExcerptSection ==
    /\ qpc = "input"
    /\ Len(q_sections) < Cardinality(ShiftYears)
    /\ \E year \in ShiftYears :
       \E entry \in (IF q_sections = <<>> THEN FirstEntries(MaxParagraphs)
                                          ELSE LaterEntries) :
          q_sections' = SortByYear(Append(q_sections,
                            [year |-> year,
                             paragraphs |-> normalize_paragraphs(<<>>, entry.paragraphs),
                             confidence |-> entry.confidence]))
    /\ UNCHANGED <<qpc, q_shifts, q_pairs>>
    /\ UNCHANGED <<coreVars, ctVars, dlVars, bsVars, extVars>>

\* main: "No sections provided." when there is none, else load_shifts,
\* build_excerpt_pairs and the write
BuildExcerpts ==
    /\ qpc = "input"
    /\ q_sections # <<>>
    /\ \E shifts \in {<<>>} \cup {<<shift>> : shift \in ShiftKinds} :
       \E pairs \in ExcerptPairs(q_sections, shifts) :
          /\ q_shifts' = shifts
          /\ q_pairs' = Some(pairs)
    /\ qpc' = "built"
    /\ UNCHANGED q_sections
    /\ UNCHANGED <<coreVars, ctVars, dlVars, bsVars, extVars>>

NextQuality == LoadExcerptSection \/ BuildExcerpts

SpecQuality == InitQuality /\ [][NextQuality]_vars

(***************************************************************************)
(* The excerpt selector's claims.                                          *)
(***************************************************************************)
ExcerptsBuilt == qpc = "built" /\ ~IsNone(q_pairs)

ExcerptPairsOut == TheVal(q_pairs)

\* The paragraphs a pair returns for one year, and the paragraphs stored for it.
SideOf(pair, year) == SelectSeq(pair.representativeParagraphs, LAMBDA r : r.year = year)

StoredOf(year) ==
    IF IsNone(SectionOfYear(q_sections, year)) THEN <<>>
    ELSE TheVal(SectionOfYear(q_sections, year)).paragraphs

\* Every pair and side: at most 3 paragraphs, each index valid and returned once.
SidesBounded ==
    \A k \in 1..Len(ExcerptPairsOut) :
        LET pair == ExcerptPairsOut[k]
        IN  /\ Len(pair.representativeParagraphs) <= 6
            /\ \A year \in {pair.from, pair.to} :
                  LET side == SideOf(pair, year)
                  IN  /\ Len(side) <= 3
                      /\ \A i \in 1..Len(side) :
                            /\ side[i].paragraphIndex \in 0..(Len(StoredOf(year)) - 1)
                            /\ \A j \in 1..Len(side) :
                                  side[i].paragraphIndex = side[j].paragraphIndex => i = j

\* C13 as stated: besides the bounds, every returned text equals the paragraph stored
\* at its index.
C13_AsStated ==
    ExcerptsBuilt =>
        /\ SidesBounded
        /\ \A k \in 1..Len(ExcerptPairsOut) :
              \A i \in 1..Len(ExcerptPairsOut[k].representativeParagraphs) :
                  LET r == ExcerptPairsOut[k].representativeParagraphs[i]
                  IN  r.text = StoredOf(r.year)[r.paragraphIndex + 1]

\* C13: for every shift pair and each side the selector returns at most 3 paragraphs
\* (at most 6 per pair), each with a paragraphIndex that is a valid index into that
\* side's stored paragraphs and returned once for the side; the text is the stored
\* paragraph after normalize_excerpt_text, which differs from the stored paragraph
\* when that holds a line break.
C13_Selection ==
    ExcerptsBuilt =>
        /\ SidesBounded
        /\ \A k \in 1..Len(ExcerptPairsOut) :
              \A i \in 1..Len(ExcerptPairsOut[k].representativeParagraphs) :
                  LET r == ExcerptPairsOut[k].representativeParagraphs[i]
                      stored == StoredOf(r.year)[r.paragraphIndex + 1]
                  IN  r.text = IF stored.id \in DOMAIN NormalForm
                               THEN Chunk(NormalForm[stored.id]) ELSE stored

\* A side with four stored paragraphs returns three of them, one of them a paragraph
\* with a line break.
C13_Witness ==
    /\ ExcerptsBuilt
    /\ \E k \in 1..Len(ExcerptPairsOut) :
          LET pair == ExcerptPairsOut[k]
              side == SideOf(pair, pair.to)
          IN  /\ Len(StoredOf(pair.to)) = 4
              /\ Len(side) = 3
              /\ \E i \in 1..3 :
                    StoredOf(pair.to)[side[i].paragraphIndex + 1].id \in DOMAIN NormalForm

\* C14: every returned paragraph has a text of 220 to 2600 characters, at most 22
\* digits in 100 characters, and a match of a primary term: a riser term of the pair on
\* the `to` side, a faller term on the `from` side.
C14_Gate ==
    ExcerptsBuilt =>
        \A k \in 1..Len(ExcerptPairsOut) :
            \A i \in 1..Len(ExcerptPairsOut[k].representativeParagraphs) :
                LET r == ExcerptPairsOut[k].representativeParagraphs[i]
                    primary == IF r.year = q_shifts[k].to_year
                               THEN q_shifts[k].top_risers ELSE q_shifts[k].top_fallers
                IN  /\ r.text.len >= 220 /\ r.text.len <= 2600
                    /\ 100 * ChunkDigits[r.text.id] <= 22 * r.text.len
                    /\ \E t \in 1..Len(primary) :
                          /\ primary[t].term # <<>>
                          /\ FindAll(ChunkWords[r.text.id], primary[t].term, 1) > 0

\* The `to` side stores a paragraph of 150 characters with three riser terms and a long
\* enough paragraph with one: only the second is returned.
C14_Witness ==
    /\ ExcerptsBuilt
    /\ Len(ExcerptPairsOut) = 1
    /\ LET pair == ExcerptPairsOut[1]
           stored == StoredOf(pair.to)
           side == SideOf(pair, pair.to)
           matched(c) == Cardinality({t \in 1..Len(q_shifts[1].top_risers) :
                             /\ q_shifts[1].top_risers[t].term # <<>>
                             /\ FindAll(ChunkWords[c.id], q_shifts[1].top_risers[t].term, 1)
                                    > 0})
       IN  /\ \E p \in 1..Len(stored) :
                /\ stored[p].len = 150 /\ matched(stored[p]) = 3
                /\ \A i \in 1..Len(side) : side[i].paragraphIndex # p - 1
           /\ side # <<>>

(***************************************************************************)
(* The canonical-terms compiler (build_canonical_terms.py).  A string is   *)
(* the sequence of its characters; a YAML value that is not a string is    *)
(* the marker NotAString.  An error or a warning is the tuple of the parts *)
(* of its message.                                                         *)
(***************************************************************************)
TERM_NOISE_TOKENS == {<<"m", "r">>, <<"m", "s">>, <<"m", "r", "s">>, <<"d", "r">>}
WHITELIST_SHORT_TOKENS ==
    {<<"a", "i">>, <<"u", "s">>, <<"u", "k">>, <<"e", "u">>, <<"i", "p">>,
     <<"l", "l", "m">>, <<"l", "l", "m", "s">>}
MinVariantChars == 3
MaxVariantTokens == 5

NotAString == <<"#number">>
IsStr(v) == v # NotAString

\* The characters of the model's strings in code-point order.
CharOrder ==
    <<" ", "-", ".", "2", "4", "A", "I", "R", "S", "U", "_", "a", "i", "k", "m",
      "r", "s", "u", "x", "y">>

CodeRank(c) == CHOOSE i \in 1..Len(CharOrder) : CharOrder[i] = c

IsAlpha(c) == CodeRank(c) >= CodeRank("A") /\ c # "_"
IsAlnum(c) == IsAlpha(c) \/ c \in {"2", "4"}
IsSpace(c) == c = " "

\* str.lower() of one character
LowerChar(c) ==
    CASE c = "A" -> "a" [] c = "I" -> "i" [] c = "R" -> "r" [] c = "S" -> "s"
      [] c = "U" -> "u" [] OTHER -> c

\* str.split(): the runs of characters between white space
RECURSIVE SplitWords(_)
SplitWords(value) ==
    IF value = <<>> THEN <<>>
    ELSE IF IsSpace(Head(value)) THEN SplitWords(Tail(value))
    ELSE LET rest == SplitWords(Tail(value))
         IN  IF Len(value) > 1 /\ ~IsSpace(value[2])
             THEN <<<<Head(value)>> \o Head(rest)>> \o Tail(rest)
             ELSE <<<<Head(value)>>>> \o rest

\* " ".join(words)
RECURSIVE JoinWords(_)
JoinWords(words) ==
    IF words = <<>> THEN <<>>
    ELSE IF Len(words) = 1 THEN Head(words)
    ELSE Head(words) \o <<" ">> \o JoinWords(Tail(words))

\* str.strip()
StripStr(value) ==
    LET inner == {i \in 1..Len(value) : ~IsSpace(value[i])}
    IN  IF inner = {} THEN <<>>
        ELSE SubSeq(value, CHOOSE i \in inner : \A j \in inner : i <= j,
                           CHOOSE i \in inner : \A j \in inner : j <= i)

\* normalize_variant
normalize_variant(value) ==
    LET lowered == [i \in 1..Len(value) |-> LowerChar(value[i])]
        spaced == [i \in 1..Len(value) |-> IF lowered[i] = "-" THEN " " ELSE lowered[i]]
        kept == SelectSeq(spaced, LAMBDA ch : IsAlnum(ch) \/ IsSpace(ch) \/ ch = "_")
    IN  StripStr(JoinWords(SplitWords(kept)))

\* token_count
token_count(value) == IF value = <<>> THEN 0 ELSE Len(SplitWords(value))

\* A variant that never applies the short-token rule.
short_token_rejected_never(normalized) == FALSE

\* validate_variant: len(normalized) < 3 and normalized not in WHITELIST_SHORT_TOKENS
short_token_rejected(normalized) ==
    Len(normalized) < MinVariantChars /\ normalized \notin WHITELIST_SHORT_TOKENS

\* validate_variant: the normalized variant or None, and the error and the warning
\* lists with what it appended
validate_variant(raw, concept_id, errors, warnings) ==
    LET fail(message) ==
            [normalized |-> None, errors |-> Append(errors, message),
             warnings |-> warnings]
    IN  IF ~IsStr(raw) THEN fail(<<concept_id, "variant must be a string">>)
        ELSE IF StripStr(raw) = <<>> THEN fail(<<concept_id, "variant is empty">>)
        ELSE LET normalized == normalize_variant(StripStr(raw))
             IN  IF normalized = <<>>
                 THEN fail(<<concept_id, "variant normalizes to empty", raw>>)
                 ELSE IF ~\E i \in 1..Len(normalized) : IsAlpha(normalized[i])
                 THEN fail(<<concept_id, "variant must include letters", raw>>)
                 ELSE IF normalized \in TERM_NOISE_TOKENS
                 THEN fail(<<concept_id, "noise token not allowed", normalized>>)
                 ELSE IF short_token_rejected(normalized)
                 THEN fail(<<concept_id, "short token not whitelisted", normalized>>)
                 ELSE [normalized |-> Some(normalized), errors |-> errors,
                       warnings |->
                           IF token_count(normalized) > MaxVariantTokens
                           THEN Append(warnings,
                                       <<concept_id, "variant has >5 tokens", normalized>>)
                           ELSE warnings]

\* a < b for two strings: by code point, a proper prefix first
RECURSIVE VariantLess(_, _)
VariantLess(a, b) ==
    IF b = <<>> THEN FALSE
    ELSE IF a = <<>> THEN TRUE
    ELSE IF Head(a) # Head(b) THEN CodeRank(Head(a)) < CodeRank(Head(b))
    ELSE VariantLess(Tail(a), Tail(b))

\* The sort key (-token_count(value), -len(value), value) of sort_variants.
VariantBefore(a, b) ==
    \/ token_count(a) > token_count(b)
    \/ token_count(a) = token_count(b) /\ Len(a) > Len(b)
    \/ token_count(a) = token_count(b) /\ Len(a) = Len(b) /\ VariantLess(a, b)

\* A sort that keeps the order of the file.
sort_compiled_variants_file_order(variants) == variants

\* build_canonical_terms.sort_variants, for a list without repetition
sort_compiled_variants(variants) == SortedSeq(Range(variants), VariantBefore)

MaxConceptVariants == 25
MaxConceptCount == 40
MaxTotalVariants == 250

\* A variant that lets a variant of another concept through.
variant_overlaps_never(variant_to_concept, normalized, concept_id) == FALSE

\* normalized in variant_to_concept and variant_to_concept[normalized] != concept_id
variant_overlaps(variant_to_concept, normalized, concept_id) ==
    IF normalized \in DOMAIN variant_to_concept
    THEN variant_to_concept[normalized] # concept_id
    ELSE FALSE

\* variant_to_concept[normalized] = concept_id
Assign(variant_to_concept, normalized, concept_id) ==
    [v \in DOMAIN variant_to_concept \cup {normalized} |->
        IF v = normalized THEN concept_id ELSE variant_to_concept[v]]

\* compile_terms, the body of the loop over variants_value.  The state st holds
\* errors, warnings, seen_variants, normalized_variants, conditional_entries and
\* variant_to_concept.
VariantStep(st, variant, concept_id) ==
    LET checked == validate_variant(variant, concept_id, st.errors, st.warnings)
        after == [st EXCEPT !.errors = checked.errors, !.warnings = checked.warnings]
        normalized == TheVal(checked.normalized)
    IN  IF IsNone(checked.normalized) THEN after
        ELSE IF normalized \in st.seen_variants
        THEN [after EXCEPT !.errors =
                 Append(@, <<concept_id, "duplicate variant after normalization",
                             normalized>>)]
        ELSE IF variant_overlaps(st.variant_to_concept, normalized, concept_id)
        THEN [after EXCEPT !.errors =
                 Append(@, <<st.variant_to_concept[normalized], "variant overlap",
                             normalized, concept_id>>)]
        ELSE [after EXCEPT
                 !.seen_variants = @ \cup {normalized},
                 !.normalized_variants = Append(@, normalized),
                 !.variant_to_concept = Assign(@, normalized, concept_id)]

\* compile_terms, the body of the loop over conditional_list; the condition of an
\* entry is "string", "mapping" or "missing".
ConditionalStep(st, entry, concept_id) ==
    LET checked == validate_variant(entry.variant, concept_id, st.errors, st.warnings)
        after == [st EXCEPT !.errors = checked.errors, !.warnings = checked.warnings]
        normalized == TheVal(checked.normalized)
    IN  IF IsNone(checked.normalized) THEN after
        ELSE IF normalized \in st.seen_variants
        THEN [after EXCEPT !.errors =
                 Append(@, <<concept_id, "duplicate variant after normalization",
                             normalized>>)]
        ELSE IF variant_overlaps(st.variant_to_concept, normalized, concept_id)
        THEN [after EXCEPT !.errors =
                 Append(@, <<st.variant_to_concept[normalized], "variant overlap",
                             normalized, concept_id>>)]
        ELSE IF entry.condition \notin {"string", "mapping"}
        THEN [after EXCEPT !.errors =
                 Append(@, <<concept_id, "conditional variant missing condition",
                             normalized>>)]
        ELSE [after EXCEPT
                 !.seen_variants = @ \cup {normalized},
                 !.variant_to_concept = Assign(@, normalized, concept_id),
                 !.conditional_entries =
                     Append(@, [variant |-> normalized, condition |-> entry.condition])]

\* compile_terms: for variant in variants_value
RECURSIVE VariantLoop(_, _, _)
VariantLoop(st, items, concept_id) ==
    IF items = <<>> THEN st
    ELSE VariantLoop(VariantStep(st, Head(items), concept_id), Tail(items), concept_id)

\* compile_terms: for entry in conditional_list
RECURSIVE ConditionalLoop(_, _, _)
ConditionalLoop(st, items, concept_id) ==
    IF items = <<>> THEN st
    ELSE ConditionalLoop(ConditionalStep(st, Head(items), concept_id), Tail(items),
                         concept_id)

\* compile_terms, the body of the loop over concepts_list: the state the loops over
\* the variants start with
ConceptStart(acc, concept) ==
    LET errors1 == IF concept.label = ""
                   THEN Append(acc.errors,
                               <<concept.id, "label must be a non-empty string">>)
                   ELSE acc.errors
    IN  [errors |-> IF concept.variants = <<>>
                    THEN Append(errors1, <<concept.id, "variants must be a non-empty list">>)
                    ELSE errors1,
         warnings |-> acc.warnings, seen_variants |-> {},
         normalized_variants |-> <<>>, conditional_entries |-> <<>>,
         variant_to_concept |-> acc.variant_to_concept]

\* compile_terms, the body of the loop over concepts_list: what it appends when the
\* loops over the variants have left st, normalized_variants and cond_order being the
\* sorted regular variants and the sorted variants of the conditional entries
ConceptOutput(acc, concept, st, normalized_variants, cond_order) ==
    [errors |-> st.errors,
     warnings |-> IF Len(normalized_variants) > MaxConceptVariants
                  THEN Append(st.warnings, <<concept.id, "variants > 25">>)
                  ELSE st.warnings,
     concepts_output |->
         Append(acc.concepts_output,
                [id |-> concept.id, label |-> concept.label,
                 variants |-> normalized_variants,
                 conditionalVariants |->
                     [k \in 1..Len(cond_order) |->
                         CHOOSE e \in Range(st.conditional_entries) :
                             e.variant = cond_order[k]]]),
     variant_to_concept |-> st.variant_to_concept,
     concept_ids |-> acc.concept_ids \cup {concept.id},
     total_variants |-> acc.total_variants + Len(normalized_variants) + Len(cond_order)]

ConceptSorted(acc, concept, st) ==
    ConceptOutput(acc, concept, st, sort_compiled_variants(st.normalized_variants),
                  sort_compiled_variants([i \in 1..Len(st.conditional_entries) |->
                                             st.conditional_entries[i].variant]))

\* compile_terms, the body of the loop over concepts_list.  The state acc holds
\* errors, warnings, concepts_output, variant_to_concept, concept_ids, total_variants.
ConceptStep(acc, concept) ==
    IF concept.id = ""
    THEN [acc EXCEPT !.errors = Append(@, <<"", "concept id must be a non-empty string">>)]
    ELSE IF concept.id \in acc.concept_ids
    THEN [acc EXCEPT !.errors = Append(@, <<concept.id, "duplicate concept id">>)]
    ELSE ConceptSorted(acc, concept,
                       ConditionalLoop(VariantLoop(ConceptStart(acc, concept),
                                                   concept.variants, concept.id),
                                       concept.conditional_variants, concept.id))

RECURSIVE ConceptLoop(_, _)
ConceptLoop(acc, concepts) ==
    IF concepts = <<>> THEN acc
    ELSE ConceptLoop(ConceptStep(acc, Head(concepts)), Tail(concepts))

\* compile_terms, after the loop over concepts_list has left acc
CompileResult(config, acc) ==
    LET errors0 == (IF IsNone(config.version)
                    THEN <<<<"", "version is required and must be string/number">>>>
                    ELSE <<>>)
                   \o (IF IsNone(config.concepts)
                       THEN <<<<"", "concepts must be a list">>>> ELSE <<>>)
        warnings == acc.warnings
                    \o (IF Len(acc.concepts_output) > MaxConceptCount
                        THEN <<<<"", "concept count > 40">>>> ELSE <<>>)
                    \o (IF acc.total_variants > MaxTotalVariants
                        THEN <<<<"", "total variants > 250">>>> ELSE <<>>)
    IN  IF errors0 # <<>> THEN [status |-> "raised", errors |-> errors0]
        ELSE IF acc.errors # <<>> THEN [status |-> "raised", errors |-> acc.errors]
        ELSE [status |-> "returned", warnings |-> warnings,
              output |-> [version |-> TheVal(config.version),
                          concepts |-> acc.concepts_output,
                          variantToConcept |-> acc.variant_to_concept,
                          whitelistShortTokens |-> WHITELIST_SHORT_TOKENS,
                          noiseTokens |-> TERM_NOISE_TOKENS]]

\* compile_terms: (output, warnings), or the ValidationError with its errors.  The
\* config holds "version" (None when it is no string or number) and "concepts" (None
\* when it is no list).
compile_terms(config) ==
    CompileResult(config,
                  ConceptLoop([errors |-> <<>>, warnings |-> <<>>, concepts_output |-> <<>>,
                               variant_to_concept |-> <<>>, concept_ids |-> {},
                               total_variants |-> 0],
                              TheVal(config.concepts)))

(***************************************************************************)
(* SpecCompile: main() of build_canonical_terms.py.  The specification     *)
(* file is missing, is no YAML, holds a value that is no mapping, or holds *)
(* a mapping; the concepts of a mapping and their variants are added one   *)
(* by one, up to MaxVariants variants in the file (one more when the file  *)
(* holds a single concept of one regular variant and conditional ones).    *)
(***************************************************************************)
MaxVariants == 2

ConceptIds == {"alpha", "beta"}

RawVariants ==
    { <<"u", "s">>, <<"U", ".", "S", ".">>, <<"x", "y">>,
      <<"x", "y", " ", " ", "r", "i", "s", "k">>, <<"A", "I", "-", "R", "i", "s", "k">>,
      <<"m", "r">>, <<"4", "2">>, <<" ">>, NotAString }

ConditionalEntries ==
    { [variant |-> <<"u", "s">>, condition |-> "string"],
      [variant |-> <<"a", "i", " ", "r", "i", "s", "k">>, condition |-> "mapping"],
      [variant |-> <<"u", "k">>, condition |-> "missing"] }

Mapping(version, concepts) ==
    [kind |-> "mapping", version |-> version, concepts |-> concepts]

\* The runs that are modelled: the file and the arguments.
CompilerRuns ==
    { [file |-> [kind |-> k], args |-> "write"] :
          k \in {"missing", "unparseable", "not_mapping"} }
    \cup { [file |-> Mapping(Some("1.0"), Some(<<>>)), args |-> a] :
               a \in {"write", "check", "no_out"} }
    \cup { [file |-> Mapping(None, Some(<<>>)), args |-> "write"],
           [file |-> Mapping(Some("1.0"), None), args |-> "write"] }

InitCompile ==
    /\ cpc = "input"
    /\ \E run \in CompilerRuns : c_file = Some(run.file) /\ c_args = run.args
    /\ c_exit = None /\ c_stderr = <<>> /\ c_written = None
    /\ CoreIdle /\ QualityIdle /\ DownloadIdle /\ BootstrapIdle /\ ExtIdle

FileConcepts == TheVal(TheVal(c_file).concepts)

HasConceptList ==
    /\ TheVal(c_file).kind = "mapping"
    /\ ~IsNone(TheVal(c_file).concepts)

VariantCount ==
    SumSeq([i \in 1..Len(FileConcepts) |->
               Len(FileConcepts[i].variants) + Len(FileConcepts[i].conditional_variants)])

SetConcepts(concepts) == Some([TheVal(c_file) EXCEPT !.concepts = Some(concepts)])

\* The file holds one more concept.
AddConcept ==
    /\ cpc = "input" /\ HasConceptList
    /\ Len(FileConcepts) < Cardinality(ConceptIds)
    /\ \E id \in ConceptIds, label \in {"Label", ""} :
          /\ label = "" => id = "beta"
          /\ c_file' = SetConcepts(Append(FileConcepts,
                           [id |-> id, label |-> label, variants |-> <<>>,
                            conditional_variants |-> <<>>]))
    /\ UNCHANGED <<cpc, c_args, c_exit, c_stderr, c_written>>
    /\ UNCHANGED <<coreVars, qlVars, dlVars, bsVars, extVars>>

\* The last concept of the file holds one more variant.
AddVariant ==
    /\ cpc = "input" /\ HasConceptList
    /\ FileConcepts # <<>>
    /\ VariantCount < MaxVariants
    /\ FileConcepts[Len(FileConcepts)].conditional_variants = <<>>
    /\ \E raw \in RawVariants :
          c_file' = SetConcepts([FileConcepts EXCEPT
                                    ![Len(FileConcepts)].variants = Append(@, raw)])
    /\ UNCHANGED <<cpc, c_args, c_exit, c_stderr, c_written>>
    /\ UNCHANGED <<coreVars, qlVars, dlVars, bsVars, extVars>>

\* The last concept of the file holds one more conditional variant.
AddConditional ==
    /\ cpc = "input" /\ HasConceptList
    /\ FileConcepts # <<>>
    /\ IF Len(FileConcepts) = 1 /\ Len(FileConcepts[1].variants) = 1
       THEN VariantCount <= MaxVariants
       ELSE VariantCount < MaxVariants
    /\ \E entry \in ConditionalEntries :
          c_file' = SetConcepts([FileConcepts EXCEPT
                                    ![Len(FileConcepts)].conditional_variants =
                                        Append(@, entry)])
    /\ UNCHANGED <<cpc, c_args, c_exit, c_stderr, c_written>>
    /\ UNCHANGED <<coreVars, qlVars, dlVars, bsVars, extVars>>

\* load_yaml: the mapping, or the exception it leaves with
load_yaml(file) ==
    IF file.kind = "missing" THEN [status |-> "raised", exception |-> "OSError"]
    ELSE IF file.kind = "unparseable"
    THEN [status |-> "raised", exception |-> "YAMLError"]
    ELSE IF file.kind = "not_mapping"
    THEN [status |-> "raised", exception |-> "ValidationError",
          errors |-> <<<<"", "YAML root must be a mapping">>>>]
    ELSE [status |-> "returned", config |-> file]

\* print(f"error: {error}", file=sys.stderr) for every error
ErrorLines(errors) == [i \in 1..Len(errors) |-> <<"error", errors[i]>>]

\* main, after compile_terms: what it returns, prints and writes
MainResult(compiled, args) ==
    LET invalid(errors) ==
            [exit |-> 2, stderr |-> ErrorLines(errors), written |-> None]
    IN  IF compiled.status = "raised" THEN invalid(compiled.errors)
        ELSE IF args = "check" THEN [exit |-> 0, stderr |-> <<>>, written |-> None]
        ELSE IF args = "no_out"
        THEN invalid(<<<<"", "--out and --report are required unless --check is used">>>>)
        ELSE [exit |-> 0, stderr |-> <<>>, written |-> Some(compiled.output)]

\* main: what it returns, prints and writes
main_compile(file, args) ==
    LET loaded == load_yaml(file)
    IN  IF loaded.status = "raised"
        THEN IF loaded.exception = "ValidationError"
             THEN [exit |-> 2, stderr |-> ErrorLines(loaded.errors), written |-> None]
             ELSE [exit |-> 3, stderr |-> <<<<"error", <<"", loaded.exception>>>>>>,
                   written |-> None]
        ELSE MainResult(compile_terms(loaded.config), args)

\* One run of main.
RunCompiler ==
    /\ cpc = "input"
    /\ \E res \in {main_compile(TheVal(c_file), c_args)} :
          /\ c_exit' = Some(res.exit)
          /\ c_stderr' = res.stderr
          /\ c_written' = res.written
    /\ cpc' = "exited"
    /\ UNCHANGED <<c_file, c_args>>
    /\ UNCHANGED <<coreVars, qlVars, dlVars, bsVars, extVars>>

NextCompile == AddConcept \/ AddVariant \/ AddConditional \/ RunCompiler

SpecCompile == InitCompile /\ [][NextCompile]_vars

(***************************************************************************)
(* The compiler's claims.                                                  *)
(***************************************************************************)
Exited == cpc = "exited"

SpecFile == TheVal(c_file)

\* The file is a mapping with a version and a list of concepts: the loop over the
\* concepts runs.
ConceptsRead ==
    /\ SpecFile.kind = "mapping"
    /\ ~IsNone(SpecFile.version) /\ ~IsNone(SpecFile.concepts)

\* The raw variants of concept i, regular then conditional.
RawOf(i) ==
    FileConcepts[i].variants
    \o [j \in 1..Len(FileConcepts[i].conditional_variants) |->
           FileConcepts[i].conditional_variants[j].variant]

\* The places <<concept, variant>> of the file's variants that are strings.
Places ==
    {pl \in (1..Len(FileConcepts)) \X (1..MaxVariants + 1) :
        pl[2] <= Len(RawOf(pl[1])) /\ IsStr(RawOf(pl[1])[pl[2]])}

NormalAt(pl) == normalize_variant(StripStr(RawOf(pl[1])[pl[2]]))

\* Two places of the file hold the same normalized variant.
Repeated(pl, ql) == pl # ql /\ NormalAt(pl) # <<>> /\ NormalAt(pl) = NormalAt(ql)

HasLine(message) ==
    \E i \in 1..Len(c_stderr) : c_stderr[i][1] = "error" /\ c_stderr[i][2][2] = message

\* C15: a run succeeds only if the normalized variants of all concepts, regular and
\* conditional together, are pairwise distinct; a variant repeated after normalization
\* within a concept or across concepts makes the run exit 2 with nothing written; on
\* success variantToConcept maps every normalized variant to the one concept that
\* lists it.
C15_DistinctVariants ==
    (Exited /\ ConceptsRead) =>
        /\ (\E pl \in Places, ql \in Places : Repeated(pl, ql)) =>
               c_exit = Some(2) /\ c_written = None
        /\ c_exit = Some(0) =>
               /\ \A pl \in Places, ql \in Places : ~Repeated(pl, ql)
               /\ c_args = "write" =>
                     /\ ~IsNone(c_written)
                     /\ DOMAIN TheVal(c_written).variantToConcept
                            = {NormalAt(pl) : pl \in Places}
                     /\ \A pl \in Places :
                            TheVal(c_written).variantToConcept[NormalAt(pl)]
                                = FileConcepts[pl[1]].id

\* Two concepts list variants that are equal after normalization ("us" and "U.S."):
\* the run prints a variant overlap and exits 2.
C15_Witness ==
    /\ Exited /\ ConceptsRead
    /\ Len(FileConcepts) = 2
    /\ FileConcepts[1].id # FileConcepts[2].id
    /\ \E pl \in Places, ql \in Places :
          /\ pl[1] = 1 /\ ql[1] = 2 /\ Repeated(pl, ql)
          /\ RawOf(pl[1])[pl[2]] # RawOf(ql[1])[ql[2]]
    /\ HasLine("variant overlap")
    /\ c_exit = Some(2)

\* The normalized variants of the compiled output, regular and conditional.
CompiledVariants ==
    UNION {Range(TheVal(c_written).concepts[i].variants)
           \cup {e.variant : e \in Range(TheVal(c_written).concepts[i].conditionalVariants)} :
               i \in 1..Len(TheVal(c_written).concepts)}

ShortTokenIn(variant) ==
    \E k \in 1..Len(SplitWords(variant)) :
        /\ Len(SplitWords(variant)[k]) < 3
        /\ SplitWords(variant)[k] \notin WHITELIST_SHORT_TOKENS

ConceptValidated(i) ==
    /\ FileConcepts[i].id # ""
    /\ \A h \in 1..(i - 1) : FileConcepts[h].id # FileConcepts[i].id

C17_AsStated ==
    Exited =>
        LET input_error ==
                IF SpecFile.kind # "mapping" THEN TRUE
                ELSE compile_terms(SpecFile).status = "raised"
        IN  /\ input_error => c_exit = Some(2) /\ c_stderr # <<>>
            /\ (~input_error /\ c_args # "no_out") => c_exit = Some(0)
            /\ c_exit = Some(3) => ~input_error

(***************************************************************************)
(* SpecDownload: one call of download(url, session, limiter), stepped      *)
(* through limiter.wait(), session.get() and the back-off sleep.  Time is  *)
(* counted in tenths of a second, the limiter's min_interval (1.0 / 10);   *)
(* up to MaxElapsed tenths pass between two steps.                         *)
(***************************************************************************)
MaxElapsed == 1

MaxAttempts == 5
BackoffCap == 8
TicksPerSecond == 10
MinInterval == 1

Statuses == {200, 403, 404, 429, 500}

RECURSIVE Pow2(_)
Pow2(n) == IF n = 0 THEN 1 ELSE 2 * Pow2(n - 1)

\* A variant without the cap of 8 seconds.
backoff_uncapped(n) == Pow2(n)

\* backoff = min(2 ** attempt, 8)
backoff(n) == Min(Pow2(n), BackoffCap)

\* response.status_code in {403, 429}
is_retry_status(status) == status \in {403, 429}

\* response.raise_for_status() raises
raises_for_status(status) == status >= 400 /\ status < 600

InitDownload ==
    /\ dpc = "wait" /\ attempt = 0 /\ clock = 0 /\ last_time = 0
    /\ last_response = None /\ d_log = <<>> /\ d_result = None
    /\ CoreIdle /\ QualityIdle /\ CompilerIdle /\ BootstrapIdle /\ ExtIdle

\* limiter.wait()
LimiterWait ==
    /\ dpc = "wait"
    /\ \E passed \in 0..MaxElapsed :
          LET now == clock + passed
              wait_for == MinInterval - (now - last_time)
              after == IF wait_for > 0 THEN now + wait_for ELSE now
          IN  /\ clock' = after
              /\ last_time' = after
              /\ d_log' = Append(d_log, [op |-> "wait", arg |-> 0])
    /\ dpc' = "get"
    /\ UNCHANGED <<attempt, last_response, d_result>>
    /\ UNCHANGED <<coreVars, qlVars, ctVars, bsVars, extVars>>

\* session.get(url, ...) and what download does with the response; the request can
\* raise instead of giving a response.
Request ==
    /\ dpc = "get"
    /\ \E passed \in 0..MaxElapsed : clock' = clock + passed
    /\ \/ /\ dpc' = "raised"
          /\ d_result' = Some([kind |-> "RequestException", status |-> 0])
          /\ d_log' = Append(d_log, [op |-> "get", arg |-> 0])
          /\ UNCHANGED last_response
       \/ \E status \in Statuses :
             /\ d_log' = Append(d_log, [op |-> "get", arg |-> status])
             /\ last_response' = Some(status)
             /\ IF is_retry_status(status)
                THEN dpc' = "sleep" /\ UNCHANGED d_result
                ELSE IF raises_for_status(status)
                THEN /\ dpc' = "raised"
                     /\ d_result' = Some([kind |-> "HTTPError", status |-> status])
                ELSE /\ dpc' = "returned"
                     /\ d_result' = Some([kind |-> "content", status |-> status])
    /\ UNCHANGED <<attempt, last_time>>
    /\ UNCHANGED <<coreVars, qlVars, ctVars, bsVars, extVars>>

\* time.sleep(backoff); continue -- and, when the loop is exhausted,
\* last_response.raise_for_status()
Backoff ==
    /\ dpc = "sleep"
    /\ clock' = clock + TicksPerSecond * backoff(attempt)
    /\ d_log' = Append(d_log, [op |-> "sleep", arg |-> backoff(attempt)])
    /\ attempt' = attempt + 1
    /\ IF attempt + 1 < MaxAttempts
       THEN dpc' = "wait" /\ UNCHANGED d_result
       ELSE IF raises_for_status(TheVal(last_response))
       THEN /\ dpc' = "raised"
            /\ d_result' = Some([kind |-> "HTTPError", status |-> TheVal(last_response)])
       ELSE /\ dpc' = "raised"
            /\ d_result' = Some([kind |-> "RuntimeError", status |-> 0])
    /\ UNCHANGED <<last_time, last_response>>
    /\ UNCHANGED <<coreVars, qlVars, ctVars, bsVars, extVars>>

NextDownload == LimiterWait \/ Request \/ Backoff

SpecDownload == InitDownload /\ [][NextDownload]_vars

\* limiter.wait() and time.sleep return, and session.get(timeout=30) returns or
\* raises: a step that is enabled is taken.
SpecDownloadLive == SpecDownload /\ WF_vars(NextDownload)

(***************************************************************************)
(* The download claim.                                                     *)
(***************************************************************************)
DownloadDone == dpc \in {"returned", "raised"}

LogOf(op) == SelectSeq(d_log, LAMBDA e : e.op = op)

\* What holds of the log of a download at every moment.
DownloadSafe ==
    LET gets == LogOf("get")
        sleeps == LogOf("sleep")
    IN  /\ Len(gets) <= 5
        \* the limiter's wait() precedes every request
        /\ \A i \in 1..Len(d_log) :
              d_log[i].op = "get" => i > 1 /\ d_log[i - 1].op = "wait"
        \* a request follows a request only after a 403 or a 429 and its sleep
        /\ \A k \in 1..Len(gets) : k < Len(gets) => gets[k].arg \in {403, 429}
        /\ Len(sleeps) <= Len(gets)
        /\ \A k \in 1..Len(sleeps) :
              /\ gets[k].arg \in {403, 429}
              /\ sleeps[k].arg = <<1, 2, 4, 8, 8>>[k]
        /\ dpc = "returned" =>
              /\ gets[Len(gets)].arg < 400
              /\ d_result = Some([kind |-> "content", status |-> gets[Len(gets)].arg])
              /\ d_log[Len(d_log)].op = "get"
        /\ dpc = "raised" =>
              /\ TheVal(d_result).kind \in {"HTTPError", "RequestException"}
              /\ gets[Len(gets)].arg \in {403, 429} => Len(gets) = 5 /\ Len(sleeps) = 5
              /\ gets[Len(gets)].arg \notin {0, 403, 429} =>
                    /\ d_result = Some([kind |-> "HTTPError",
                                        status |-> gets[Len(gets)].arg])
                    /\ d_log[Len(d_log)].op = "get"

\* C18: download terminates after at most 5 requests: it retries only after a 403 or a
\* 429, sleeping 1, 2, 4, 8, 8 seconds; another error status raises at once; the first
\* response without an error status is returned at once; a fifth 403 or 429 in a row
\* raises; limiter.wait() precedes every request.
C18_Download == []DownloadSafe /\ <>DownloadDone

\* Five responses 403 or 429 in a row: five sleeps and an HTTPError.
C18_Witness ==
    /\ dpc = "raised"
    /\ Len(LogOf("get")) = 5
    /\ Len(LogOf("sleep")) = 5
    /\ [k \in 1..5 |-> LogOf("sleep")[k].arg] = <<1, 2, 4, 8, 8>>
    /\ TheVal(d_result).kind = "HTTPError"
    /\ TheVal(d_result).status \in {403, 429}

(***************************************************************************)
(* The drift arrays of build_metrics with their values (sec_metrics.py).   *)
(*                                                                         *)
(* Every valid section of this part holds each term of the corpus, so the  *)
(* fitted idf is the same for every term and a tf-idf row is parallel to   *)
(* the row of term counts: a cosine is dot(a, b) / sqrt(dot(a, a) *        *)
(* dot(b, b)) over the counts.  A drift 1 - cosine is kept as a code c in  *)
(* units of 1/4000: an even c is the drift c/4000 exactly, an odd c a      *)
(* drift strictly between (c - 1)/4000 and (c + 1)/4000.                   *)
(*                                                                         *)
(* random.Random keeps its place in the stream of its seed.  The stream of *)
(* seed 13 is kept as int(12 * random()), which gives int(n * random())    *)
(* for a population of n = 1, 2, 3, 4 (random.choices draws index          *)
(* floor(random() * n)), up to the longest use one invocation makes of it. *)
(***************************************************************************)
BOOTSTRAP_ITERATIONS == 200
BOOTSTRAP_SEED == 13

StreamUnit == 12

Stream13 ==
    << 
       3, 8, 8, 10, 2, 2, 1, 2, 8, 1, 6, 2, 3, 5, 10, 7, 0, 3, 1, 10, 9, 9, 9, 8, 11, 9, 3, 10, 5, 9, 6, 5, 4, 5, 3, 1, 9, 9, 11, 8,
       6, 8, 1, 8, 5, 2, 2, 6, 3, 5, 7, 4, 1, 5, 2, 2, 2, 4, 0, 7, 11, 4, 8, 11, 0, 1, 9, 10, 7, 1, 4, 10, 10, 9, 2, 10, 4, 8, 1, 11,
       7, 8, 2, 7, 6, 7, 4, 8, 4, 3, 1, 8, 1, 2, 0, 7, 6, 6, 0, 5, 4, 1, 0, 11, 1, 3, 3, 7, 0, 5, 4, 10, 0, 4, 5, 11, 6, 5, 8, 3,
       0, 6, 10, 8, 3, 8, 10, 3, 7, 4, 2, 3, 2, 4, 0, 4, 1, 9, 7, 0, 9, 2, 5, 6, 3, 3, 5, 1, 10, 1, 9, 2, 3, 4, 0, 1, 4, 5, 10, 11,
       0, 6, 1, 9, 3, 10, 6, 1, 0, 2, 10, 1, 5, 4, 4, 9, 2, 8, 7, 11, 6, 11, 5, 6, 7, 10, 10, 1, 1, 6, 9, 6, 3, 11, 3, 1, 0, 0, 8, 1,
       8, 10, 11, 9, 5, 7, 9, 8, 3, 9, 1, 3, 11, 5, 3, 9, 5, 0, 0, 3, 3, 11, 2, 10, 10, 4, 11, 9, 5, 3, 5, 10, 6, 2, 4, 5, 2, 6, 0, 9,
       2, 1, 7, 3, 10, 5, 6, 10, 2, 8, 7, 5, 11, 0, 10, 1, 10, 1, 0, 6, 11, 3, 5, 7, 2, 6, 0, 5, 9, 4, 2, 0, 8, 5, 10, 8, 1, 10, 11, 9,
       9, 8, 8, 8, 7, 3, 1, 8, 7, 0, 7, 7, 6, 9, 10, 4, 9, 5, 6, 4, 11, 5, 11, 4, 8, 10, 8, 4, 0, 5, 4, 9, 9, 11, 5, 4, 6, 8, 0, 2,
       1, 3, 3, 11, 2, 11, 3, 2, 11, 1, 1, 1, 0, 4, 2, 1, 0, 8, 0, 2, 6, 10, 7, 8, 8, 9, 10, 1, 0, 7, 6, 6, 9, 2, 8, 5, 5, 2, 3, 6,
       6, 10, 3, 8, 1, 7, 1, 10, 11, 3, 9, 2, 3, 1, 5, 1, 8, 6, 5, 8, 2, 3, 4, 0, 10, 1, 1, 9, 9, 5, 5, 1, 0, 6, 2, 1, 10, 0, 4, 9,
       8, 1, 8, 6, 7, 11, 9, 7, 9, 5, 6, 9, 7, 4, 0, 9, 4, 5, 3, 6, 4, 10, 7, 6, 9, 5, 6, 9, 8, 8, 10, 6, 6, 2, 2, 5, 5, 10, 0, 4,
       8, 5, 10, 1, 9, 5, 6, 0, 4, 9, 8, 6, 5, 0, 8, 5, 8, 7, 4, 10, 1, 11, 1, 11, 7, 5, 11, 6, 6, 0, 9, 7, 2, 1, 5, 11, 10, 5, 0, 9,
       2, 8, 5, 11, 1, 9, 8, 0, 6, 3, 8, 11, 7, 5, 7, 2, 5, 1, 8, 0, 6, 2, 6, 0, 0, 7, 8, 10, 8, 11, 1, 7, 7, 2, 1, 2, 6, 9, 8, 6,
       0, 8, 6, 2, 7, 2, 3, 5, 9, 1, 5, 2, 8, 9, 3, 8, 5, 2, 3, 6, 9, 7, 0, 9, 6, 5, 2, 5, 8, 3, 1, 10, 5, 0, 10, 1, 4, 7, 7, 10,
       2, 6, 10, 5, 8, 5, 8, 11, 4, 8, 4, 10, 9, 10, 10, 7, 11, 1, 6, 0, 6, 8, 3, 9, 5, 2, 2, 6, 4, 0, 3, 11, 5, 8, 5, 0, 7, 2, 1, 7,
       8, 0, 11, 0, 1, 3, 9, 8, 8, 5, 10, 1, 11, 0, 1, 9, 9, 8, 2, 10, 6, 2, 1, 11, 0, 2, 4, 10, 9, 10, 7, 0, 8, 2, 11, 11, 0, 8, 2, 1,
       10, 5, 3, 6, 0, 5, 7, 10, 1, 10, 1, 2, 4, 2, 1, 7, 4, 2, 6, 1, 8, 11, 5, 5, 4, 4, 4, 2, 3, 8, 5, 0, 1, 10, 4, 9, 7, 7, 4, 6,
       4, 6, 11, 1, 2, 10, 11, 9, 10, 1, 8, 1, 10, 4, 5, 6, 2, 6, 10, 5, 5, 4, 2, 3, 10, 11, 4, 3, 4, 10, 3, 2, 3, 1, 1, 2, 7, 11, 3, 3,
       7, 0, 1, 6, 5, 4, 4, 0, 3, 2, 2, 0, 9, 0, 4, 2, 2, 9, 11, 11, 3, 6, 5, 0, 5, 7, 4, 9, 5, 3, 10, 6, 3, 10, 5, 7, 5, 10, 8, 5,
       4, 9, 10, 7, 10, 6, 4, 3, 3, 1, 11, 6, 1, 2, 5, 9, 10, 9, 3, 5, 11, 4, 7, 0, 5, 6, 10, 11, 9, 3, 10, 10, 0, 5, 6, 3, 2, 9, 2, 6,
       0, 5, 11, 0, 1, 10, 10, 6, 3, 3, 8, 6, 5, 8, 1, 4, 10, 10, 5, 9, 10, 6, 1, 1, 8, 4, 6, 0, 11, 3, 7, 7, 4, 2, 6, 3, 0, 2, 0, 10,
       2, 11, 7, 11, 5, 3, 1, 7, 8, 8, 10, 1, 7, 8, 11, 3, 11, 0, 7, 3, 6, 2, 4, 4, 5, 4, 2, 2, 5, 11, 10, 1, 7, 1, 3, 11, 4, 1, 6, 7,
       6, 11, 6, 4, 2, 6, 8, 6, 4, 3, 10, 11, 7, 8, 3, 1, 0, 7, 11, 8, 8, 10, 4, 5, 3, 9, 8, 6, 9, 10, 0, 2, 5, 8, 2, 5, 7, 3, 8, 0,
       4, 7, 10, 6, 7, 7, 7, 5, 3, 1, 10, 9, 7, 9, 3, 2, 6, 5, 7, 10, 4, 4, 8, 10, 6, 7, 10, 11, 0, 11, 1, 6, 5, 11, 2, 0, 11, 5, 5, 5,
       3, 0, 6, 2, 5, 11, 11, 3, 4, 1, 7, 2, 1, 10, 6, 10, 2, 2, 6, 8, 2, 6, 6, 5, 3, 5, 1, 1, 0, 10, 2, 8, 1, 10, 0, 9, 6, 10, 10, 0,
       0, 2, 0, 10, 1, 8, 11, 8, 11, 7, 4, 11, 2, 6, 4, 6, 3, 11, 11, 8, 5, 11, 11, 0, 10, 1, 1, 3, 4, 5, 11, 1, 7, 6, 1, 11, 10, 4, 10, 5,
       8, 11, 7, 4, 0, 5, 6, 3, 6, 0, 3, 5, 5, 8, 2, 3, 8, 3, 1, 7, 4, 7, 11, 11, 9, 11, 9, 4, 11, 1, 2, 6, 1, 7, 6, 2, 8, 1, 5, 3,
       11, 1, 4, 8, 3, 9, 1, 0, 0, 6, 5, 6, 5, 10, 2, 1, 2, 9, 9, 1, 0, 11, 11, 3, 6, 0, 6, 2, 8, 1, 6, 3, 5, 11, 6, 11, 8, 2, 3, 9,
       9, 1, 9, 3, 6, 10, 11, 2, 1, 3, 7, 11, 7, 9, 9, 5, 4, 9, 7, 10, 11, 5, 4, 1, 7, 3, 3, 6, 8, 8, 5, 7, 7, 10, 8, 10, 2, 10, 0, 9,
       0, 7, 3, 1, 8, 1, 8, 0, 2, 4, 6, 7, 4, 10, 0, 2, 4, 7, 7, 10, 4, 7, 8, 1, 4, 5, 7, 6, 1, 2, 3, 1, 9, 10, 8, 2, 7, 0, 2, 3,
       7, 6, 6, 1, 6, 8, 10, 4, 5, 10, 0, 7, 1, 9, 8, 0, 0, 11, 3, 6, 6, 4, 1, 8, 4, 5, 9, 11, 3, 4, 9, 5, 10, 4, 0, 3, 10, 6, 11, 9,
       8, 2, 4, 0, 4, 2, 11, 1, 4, 0, 1, 8, 4, 6, 9, 8, 2, 8, 8, 7, 6, 10, 7, 0, 10, 7, 3, 9, 11, 8, 5, 9, 0, 0, 4, 6, 7, 7, 6, 4,
       8, 6, 2, 6, 5, 9, 8, 11, 9, 6, 8, 3, 6, 11, 1, 5, 5, 8, 2, 8, 1, 11, 0, 7, 8, 6, 3, 4, 10, 5, 6, 11, 5, 9, 7, 9, 7, 1, 2, 3,
       2, 7, 5, 4, 0, 11, 5, 2, 7, 1, 1, 11, 8, 4, 1, 8, 2, 3, 3, 7, 2, 0, 10, 6, 1, 0, 10, 6, 6, 10, 0, 1, 2, 8, 1, 6, 9, 4, 7, 0,
       5, 4, 8, 4, 7, 10, 11, 9, 8, 11, 5, 0, 9, 4, 4, 11, 4, 1, 10, 0, 0, 8, 2, 8, 0, 3, 4, 7, 8, 8, 2, 10, 0, 5, 0, 9, 5, 5, 11, 2,
       7, 8, 0, 9, 4, 8, 9, 4, 4, 4, 1, 6, 8, 11, 5, 6, 7, 9, 7, 11, 10, 11, 5, 6, 2, 6, 6, 4, 11, 10, 9, 3, 6, 10, 4, 7, 2, 11, 6, 5,
       10, 3, 6, 4, 10, 6, 11, 9, 1, 7, 5, 1, 10, 9, 11, 5, 1, 7, 10, 3, 9, 5, 4, 11, 8, 11, 9, 9, 2, 8, 1, 9, 8, 4, 6, 11, 8, 3, 11, 9,
       3, 5, 4, 5, 10, 4, 11, 3, 4, 3, 9, 1, 1, 9, 8, 1, 5, 0, 10, 10, 0, 9, 2, 11, 1, 11, 3, 6, 6, 9, 4, 9, 9, 7, 0, 5, 2, 11, 5, 10,
       5, 3, 2, 8, 1, 5, 6, 11, 10, 0, 4, 5, 9, 1, 8, 3, 7, 4, 2, 10, 10, 4, 4, 2, 4, 4, 1, 11, 5, 3, 3, 1, 5, 4, 9, 3, 2, 2, 8, 1,
       1, 1, 6, 3, 8, 4, 10, 2, 4, 9, 10, 9, 8, 5, 5, 11, 4, 4, 8, 6, 10, 3, 9, 8, 1, 10, 8, 11, 6, 10, 6, 10, 9, 2, 10, 1, 6, 4, 5, 3 >>

\* random.Random(seed)
Random(seed) == [seed |-> seed, drawn |-> 0]

\* The i-th next value of the generator.
NextValue(rng, i) == Stream13[((rng.drawn + i - 1) % Len(Stream13)) + 1]

\* The generator after n draws.
Advance(rng, n) == [rng EXCEPT !.drawn = (@ + n) % Len(Stream13)]

\* rng.choices(population, k=len(population)), after `before` earlier draws
choices(rng, before, population) ==
    LET n == Len(population)
    IN  [j \in 1..n |-> population[(NextValue(rng, before + j) \div (StreamUnit \div n)) + 1]]

\* A variant that goes on with the generator the caller holds.
bootstrap_rng_shared(inherited) == inherited

\* rng = random.Random(BOOTSTRAP_SEED)
bootstrap_rng(inherited) == Random(BOOTSTRAP_SEED)

\* The terms of the corpus and the row of counts of one document.
BootTerms == <<"cyber", "supply", "climate", "labor">>

TermCounts(doc) ==
    LET tokens == VectorizerTokens(doc)
    IN  [t \in 1..Len(BootTerms) |-> CountIn(tokens, BootTerms[t])]

AddCounts(a, b) == [t \in 1..Len(BootTerms) |-> a[t] + b[t]]

Dot(a, b) == SumSeq([t \in 1..Len(BootTerms) |-> a[t] * b[t]])

\* The largest k in lo..hi with k * k <= q.
RECURSIVE RootIn(_, _, _)
RootIn(q, lo, hi) ==
    IF lo >= hi THEN lo
    ELSE LET mid == (lo + hi + 1) \div 2
         IN  IF mid * mid <= q THEN RootIn(q, mid, hi) ELSE RootIn(q, lo, mid - 1)

CosineUnits == 2000

\* 1 - cosine_similarity of two rows of counts, as a code
DriftCode(a, b) ==
    LET num == Dot(a, b)
        den == Dot(a, a) * Dot(b, b)
        q == (CosineUnits * CosineUnits * num * num) \div den
        k == RootIn(q, 0, CosineUnits)
        exact == k * k * den = CosineUnits * CosineUnits * num * num
    IN  IF den = 0 THEN 2 * CosineUnits
        ELSE IF exact THEN 2 * (CosineUnits - k)
        ELSE 2 * (CosineUnits - k) - 1

\* round(value, 2) in hundredths, of the value center / (400000) known up to
\* radius / 400000
RoundCode(center) == RoundHundredths(center, 200 * CosineUnits)

\* Every value within the radius rounds alike.
Determinate(center, radius) ==
    LET d == 200 * CosineUnits
    IN  \/ radius = 0
        \/ (200 * (center - radius) + d) \div (2 * d)
              = (200 * (center + radius) + d - 1) \div (2 * d)

\* sorted(values)[index], index from 0
SortedAt(values, index) ==
    CHOOSE v \in Range(values) :
        /\ Cardinality({i \in 1..Len(values) : values[i] < v}) <= index
        /\ Cardinality({i \in 1..Len(values) : values[i] <= v}) > index

\* percentile(values, pct): [center, radius] in units of 1/400000; None for no value
percentile(values, pct) ==
    LET index100 == (Len(values) - 1) * pct
        lower == index100 \div 100
        upper == IF index100 % 100 = 0 THEN lower ELSE lower + 1
        fraction == index100 % 100
    IN  IF values = <<>> THEN None
        ELSE IF lower = upper
        THEN CHOOSE r \in { Some([center |-> 100 * lo, radius |-> 100 * (lo % 2)]) :
                            lo \in {SortedAt(values, lower)} } : TRUE
        ELSE CHOOSE r \in
                 { Some([center |-> lo * (100 - fraction) + up * fraction,
                         radius |-> (lo % 2) * (100 - fraction) + (up % 2) * fraction]) :
                   lo \in {SortedAt(values, lower)}, up \in {SortedAt(values, upper)} } :
                 TRUE

\* round_value
round_value(value) == IF IsNone(value) THEN None ELSE Some(RoundCode(TheVal(value).center))

\* The row of counts of "\n".join(sample): the sum of the rows of its paragraphs.
RECURSIVE SumRows(_)
SumRows(rows) ==
    IF Len(rows) = 1 THEN rows[1] ELSE AddCounts(rows[1], SumRows(Tail(rows)))

\* compute_bootstrap_ci, the body of the loop: the sample of iteration `it`, the
\* paragraphs given by their rows of counts
bootstrap_sample(rng, prev_rows, curr_rows, it) ==
    LET np == Len(prev_rows)
        nc == Len(curr_rows)
        prev_sample == choices(rng, (it - 1) * (np + nc), prev_rows)
        curr_sample == choices(rng, (it - 1) * (np + nc) + np, curr_rows)
    IN  DriftCode(SumRows(prev_sample), SumRows(curr_sample))

\* compute_bootstrap_ci, the loop: the samples of iterations lo..hi (the range is
\* halved to keep the evaluation shallow)
RECURSIVE bootstrap_samples(_, _, _, _, _)
bootstrap_samples(rng, prev_rows, curr_rows, lo, hi) ==
    IF lo > hi THEN <<>>
    ELSE IF lo = hi THEN <<bootstrap_sample(rng, prev_rows, curr_rows, lo)>>
    ELSE LET mid == (lo + hi) \div 2
         IN  bootstrap_samples(rng, prev_rows, curr_rows, lo, mid)
             \o bootstrap_samples(rng, prev_rows, curr_rows, mid + 1, hi)

\* The rows of counts of a list of paragraphs.
RECURSIVE ParagraphRows(_)
ParagraphRows(paragraphs) ==
    IF paragraphs = <<>> THEN <<>>
    ELSE <<TermCounts(<<Head(paragraphs)>>)>> \o ParagraphRows(Tail(paragraphs))

\* compute_bootstrap_ci: the bounds before rounding, and the generator it leaves
compute_bootstrap_ci_values(prev_section, curr_section, inherited) ==
    LET prev_paragraphs == normalize_paragraphs(prev_section.text, prev_section.paragraphs)
        curr_paragraphs == normalize_paragraphs(curr_section.text, curr_section.paragraphs)
        rng == bootstrap_rng(inherited)
        draws == BOOTSTRAP_ITERATIONS * (Len(prev_paragraphs) + Len(curr_paragraphs))
    IN  IF prev_paragraphs = <<>> \/ curr_paragraphs = <<>>
        THEN [low |-> None, high |-> None, rng |-> inherited]
        ELSE CHOOSE r \in
                 { [low |-> percentile(samples, 5), high |-> percentile(samples, 95),
                    rng |-> Advance(rng, draws)] :
                   samples \in
                     { bootstrap_samples(g, prev_rows, curr_rows, 1, BOOTSTRAP_ITERATIONS) :
                       g \in {rng},
                       prev_rows \in {ParagraphRows(prev_paragraphs)},
                       curr_rows \in {ParagraphRows(curr_paragraphs)} } } : TRUE

\* build_metrics, the body of the loop over range(1, len(sections)); `held` is the
\* generator the process holds when compute_bootstrap_ci is entered.
DriftStep(secs, idx, valid_years, st) ==
    LET prev_year == secs[idx - 1].year
        curr_year == secs[idx].year
        drift == DriftCode(TermCounts(secs[idx - 1].text), TermCounts(secs[idx].text))
        point == Some([center |-> 100 * drift, radius |-> 100 * (drift % 2)])
        ci == CHOOSE r \in {compute_bootstrap_ci_values(secs[idx - 1], secs[idx], st.held)} :
                 TRUE
        values == <<point, ci.low, ci.high>>
    IN  IF prev_year \in valid_years /\ curr_year \in valid_years
        THEN [drift_vs_prev |-> [st.drift_vs_prev EXCEPT ![idx] = round_value(point)],
              drift_ci_low |-> [st.drift_ci_low EXCEPT ![idx] = round_value(ci.low)],
              drift_ci_high |-> [st.drift_ci_high EXCEPT ![idx] = round_value(ci.high)],
              determinate |->
                  /\ st.determinate
                  /\ \A i \in 1..3 :
                        ~IsNone(values[i]) =>
                           Determinate(TheVal(values[i]).center, TheVal(values[i]).radius),
              held |-> ci.rng]
        ELSE st

RECURSIVE DriftLoop(_, _, _, _)
DriftLoop(secs, idx, valid_years, st) ==
    IF idx > Len(secs) THEN st
    ELSE DriftLoop(secs, idx + 1, valid_years, DriftStep(secs, idx, valid_years, st))

\* build_metrics: years and the drift arrays of the metrics payload (the values in
\* hundredths), and whether every value of the arrays is far enough from a tie of
\* round(value, 2) for its code to settle the rounding.
build_drift_arrays(secs, ambient) ==
    LET n == Len(secs)
        valid_sections == SelectSeq(secs, is_valid_section)
        valid_years == {valid_sections[i].year : i \in 1..Len(valid_sections)}
        nulls == [i \in 1..n |-> None]
        start == [drift_vs_prev |-> nulls, drift_ci_low |-> nulls,
                  drift_ci_high |-> nulls, determinate |-> TRUE, held |-> ambient]
        st == IF valid_sections # <<>> THEN DriftLoop(secs, 2, valid_years, start) ELSE start
    IN  [years |-> [i \in 1..n |-> secs[i].year],
         drift_vs_prev |-> st.drift_vs_prev,
         drift_ci_low |-> st.drift_ci_low,
         drift_ci_high |-> st.drift_ci_high,
         determinate |-> st.determinate]

(***************************************************************************)
(* SpecBootstrap: build_metrics is invoked, and invoked again, while the   *)
(* list of sections grows; the process may hold a generator that other     *)
(* code has drawn from.                                                    *)
(***************************************************************************)
MaxBootSections == 3

\* Four paragraphs of one term each; two paragraphs that share a term; and a section
\* under the confidence floor.
BootstrapKinds ==
    { [text |-> <<Chunk("ba"), Chunk("bb"), Chunk("bc"), Chunk("bd")>>,
       confidence |-> Some(F_0_9)],
      [text |-> <<Chunk("bab"), Chunk("bacd")>>, confidence |-> None],
      [text |-> <<Chunk("bab"), Chunk("bcd")>>, confidence |-> Some(JustBelowHalf)] }

AmbientGenerators == {Random(BOOTSTRAP_SEED), Advance(Random(BOOTSTRAP_SEED), 7)}

InitBootstrap ==
    /\ b_sections = <<>>
    /\ b_runs = <<>>
    /\ CoreIdle /\ QualityIdle /\ CompilerIdle /\ DownloadIdle /\ ExtIdle

\* load_sections_from_json: one more section, a year after the last one
LoadBootSection ==
    /\ Len(b_sections) < MaxBootSections
    /\ \E kind \in BootstrapKinds :
          b_sections' = Append(b_sections,
                               SectionYear(FirstYear + Len(b_sections), kind.text,
                                           kind.confidence))
    /\ UNCHANGED b_runs
    /\ UNCHANGED <<coreVars, qlVars, ctVars, dlVars, extVars>>

\* metrics, similarity, shifts = build_metrics(sections)
InvokeBuildMetrics ==
    /\ b_sections # <<>>
    /\ Len(b_runs) < 2
    /\ \E ambient \in AmbientGenerators :
          b_runs' = Append(b_runs, [sections |-> b_sections, ambient |-> ambient,
                                    metrics |-> build_drift_arrays(b_sections, ambient)])
    /\ UNCHANGED b_sections
    /\ UNCHANGED <<coreVars, qlVars, ctVars, dlVars, extVars>>

NextBootstrap == LoadBootSection \/ InvokeBuildMetrics

SpecBootstrap == InitBootstrap /\ [][NextBootstrap]_vars

(***************************************************************************)
(* The bootstrap claims.                                                   *)
(***************************************************************************)
Populated(run, i) == ~IsNone(run.metrics.drift_vs_prev[i])

\* The two sections of position i, without their years.
PairAt(run, i) ==
    LET side(j) == [text |-> run.sections[j].text,
                    paragraphs |-> run.sections[j].paragraphs,
                    confidence |-> run.sections[j].confidence]
    IN  <<side(i - 1), side(i)>>

BoundsAt(run, i) == <<run.metrics.drift_ci_low[i], run.metrics.drift_ci_high[i]>>

C20_AsStated ==
    \A r \in 1..Len(b_runs) :
        b_runs[r].metrics.determinate =>
            \A i \in 1..Len(b_runs[r].sections) :
                Populated(b_runs[r], i) =>
                    /\ TheVal(b_runs[r].metrics.drift_ci_low[i])
                          <= TheVal(b_runs[r].metrics.drift_vs_prev[i])
                    /\ TheVal(b_runs[r].metrics.drift_vs_prev[i])
                          <= TheVal(b_runs[r].metrics.drift_ci_high[i])

(***************************************************************************)
(* sec_cache.py: enforce_cache_size_limit.  A cache file is its name, its  *)
(* size, its modification time and whether stat and unlink succeed on it;  *)
(* its path is its position in the directory order of the cache root.      *)
(***************************************************************************)
MaxCacheFiles == 3

OPTIONAL_NAMES == {"filing.html.gz", "debug_snippets.json"}

REQUIRED_NAMES == {"filing.txt.gz", "rf_meta.json"}

CacheFile(name, size, mtime, unlinkable) ==
    [name |-> name, size |-> size, mtime |-> mtime, unlinkable |-> unlinkable]

CacheFiles ==
    {CacheFile(name, size, mtime, u) :
        name \in OPTIONAL_NAMES, size \in {1, 2}, mtime \in {1, 2}, u \in BOOLEAN}
    \cup {CacheFile(name, size, 1, TRUE) : name \in REQUIRED_NAMES, size \in {1, 2}}

\* int(max_gb * 1024 * 1024 * 1024), in the unit of the file sizes
CacheLimits == {0, 1, 2, 3, 5}

\* root.rglob(name): the paths of that name, in directory order
RECURSIVE rglob(_, _, _)
rglob(files, name, from) ==
    IF from > Len(files) THEN <<>>
    ELSE (IF files[from].name = name THEN <<from>> ELSE <<>>)
         \o rglob(files, name, from + 1)

\* cache_size_report()["totalBytes"]
RECURSIVE total_bytes_of(_, _)
total_bytes_of(files, from) ==
    IF from > Len(files) THEN 0
    ELSE files[from].size + total_bytes_of(files, from + 1)

\* list.sort(key=st_mtime) is stable: a path goes behind every path that is not newer
RECURSIVE InsertByMtime(_, _, _)
InsertByMtime(files, sorted, path) ==
    IF sorted = <<>> THEN <<path>>
    ELSE IF files[Head(sorted)].mtime <= files[path].mtime
         THEN <<Head(sorted)>> \o InsertByMtime(files, Tail(sorted), path)
         ELSE <<path>> \o sorted

RECURSIVE SortByMtime(_, _, _)
SortByMtime(files, paths, sorted) ==
    IF paths = <<>> THEN sorted
    ELSE SortByMtime(files, Tail(paths), InsertByMtime(files, sorted, Head(paths)))

optional_files_unsorted(files) ==
    rglob(files, "filing.html.gz", 1) \o rglob(files, "debug_snippets.json", 1)

optional_files(files) ==
    SortByMtime(files,
                rglob(files, "filing.html.gz", 1) \o rglob(files, "debug_snippets.json", 1),
                <<>>)

\* for path in optional_files: ... ; st is [total_bytes, removed]
RECURSIVE PruneLoop(_, _, _, _)
PruneLoop(files, paths, limit_bytes, st) ==
    IF paths = <<>> THEN st
    ELSE IF st.total_bytes <= limit_bytes THEN st
    ELSE IF files[Head(paths)].unlinkable
         THEN PruneLoop(files, Tail(paths), limit_bytes,
                        [total_bytes |-> st.total_bytes - files[Head(paths)].size,
                         removed |-> Append(st.removed, Head(paths))])
         ELSE PruneLoop(files, Tail(paths), limit_bytes, st)

PruneReport(limit_bytes, st) ==
    [limitBytes |-> limit_bytes, totalBytes |-> st.total_bytes,
     removedFiles |-> st.removed, overLimit |-> st.total_bytes > limit_bytes]

enforce_cache_size_limit(files, limit_bytes) ==
    IF total_bytes_of(files, 1) <= limit_bytes
    THEN [limitBytes |-> limit_bytes, totalBytes |-> total_bytes_of(files, 1),
          removedFiles |-> <<>>, overLimit |-> FALSE]
    ELSE PruneReport(limit_bytes,
                     PruneLoop(files, optional_files(files), limit_bytes,
                               [total_bytes |-> total_bytes_of(files, 1),
                                removed |-> <<>>]))

InitCache ==
    /\ k_files = <<>>
    /\ k_report = None
    /\ CoreIdle /\ QualityIdle /\ CompilerIdle /\ DownloadIdle /\ BootstrapIdle
    /\ WriteIdle /\ CandidatesIdle /\ TokensIdle

\* the pipeline stores one more file under the cache root
StoreCacheFile ==
    /\ k_report = None
    /\ Len(k_files) < MaxCacheFiles
    /\ \E f \in CacheFiles : k_files' = Append(k_files, f)
    /\ UNCHANGED k_report
    /\ UNCHANGED <<oldVars, awVars, cdVars, tkVars>>

\* report = enforce_cache_size_limit(max_gb); the paths left are those not unlinked
EnforceLimit ==
    /\ k_report = None
    /\ \E limit_bytes \in CacheLimits :
         \E report \in {enforce_cache_size_limit(k_files, limit_bytes)} :
            k_report' = Some([report |-> report,
                              left |-> {p \in 1..Len(k_files) :
                                          \A i \in 1..Len(report.removedFiles) :
                                              report.removedFiles[i] # p}])
    /\ UNCHANGED k_files
    /\ UNCHANGED <<oldVars, awVars, cdVars, tkVars>>

NextCache == StoreCacheFile \/ EnforceLimit

SpecCache == InitCache /\ [][NextCache]_vars

(***************************************************************************)
(* The cache-limit claim.                                                  *)
(***************************************************************************)
IsOptional(path) == k_files[path].name \in OPTIONAL_NAMES

RemovedPaths(report) == {report.removedFiles[i] : i \in 1..Len(report.removedFiles)}

SizeOfPaths(paths) == total_bytes_of([i \in 1..Len(k_files) |->
                                         IF i \in paths THEN k_files[i]
                                         ELSE CacheFile("", 0, 0, FALSE)], 1)

\* C21: enforce_cache_size_limit deletes optional files only (filing.html.gz,
\* debug_snippets.json), oldest modification time first, and stops as soon as the
\* running total is at or below the limit; text, risk and metadata files all stay;
\* a cache within the limit loses nothing; overLimit is reported exactly when the
\* total that is left still exceeds the limit.
C21_PruneOptionalOldestFirst ==
    ~IsNone(k_report) =>
        LET report == TheVal(k_report).report
            left == TheVal(k_report).left
            removed == report.removedFiles
            before == total_bytes_of(k_files, 1)
        IN  /\ \A i \in 1..Len(removed) : IsOptional(removed[i])
            /\ \A p \in 1..Len(k_files) : ~IsOptional(p) => p \in left
            /\ \A i, j \in 1..Len(removed) :
                  i < j => /\ removed[i] # removed[j]
                           /\ k_files[removed[i]].mtime <= k_files[removed[j]].mtime
            \* an optional file older than a deleted one is deleted too, unless
            \* its unlink failed
            /\ \A i \in 1..Len(removed), p \in left :
                  IsOptional(p) /\ k_files[p].mtime < k_files[removed[i]].mtime
                     => ~k_files[p].unlinkable
            \* the total was still above the limit before the last deletion
            /\ removed # <<>> =>
                  report.totalBytes + k_files[removed[Len(removed)]].size
                     > report.limitBytes
            /\ before <= report.limitBytes => removed = <<>> /\ ~report.overLimit
            /\ report.totalBytes = SizeOfPaths(left)
            /\ report.overLimit <=> (SizeOfPaths(left) > report.limitBytes)
            \* over the limit after the call: every optional file was considered
            /\ report.overLimit =>
                  \A p \in left : IsOptional(p) => ~k_files[p].unlinkable

\* An over-limit cache of three files: the older optional file is deleted, the newer
\* one and the text file stay, and the total left is within the limit.
C21_Witness ==
    /\ ~IsNone(k_report)
    /\ Len(k_files) = 3
    /\ Len(TheVal(k_report).report.removedFiles) = 1
    /\ \E p \in TheVal(k_report).left :
          /\ IsOptional(p)
          /\ k_files[p].unlinkable
          /\ k_files[p].mtime > k_files[TheVal(k_report).report.removedFiles[1]].mtime
          /\ p < TheVal(k_report).report.removedFiles[1]
    /\ \E p \in TheVal(k_report).left : k_files[p].name = "filing.txt.gz"
    /\ ~TheVal(k_report).report.overLimit

(***************************************************************************)
(* sec_cache.py: atomic_write_bytes.  The directory maps the target path   *)
(* and its sibling <name>.tmp to inodes; an open handle stays on its inode *)
(* whatever the directory does afterwards.  Every caller writes its own    *)
(* payload to the same target path; the bytes of a payload reach the file  *)
(* one at a time, and a write can fail part-way.                           *)
(***************************************************************************)
Payload(w) == IF w = 1 THEN <<"a", "a">> ELSE <<"b", "b">>

PreviousContent == <<"p", "p">>

\* the target before any call: absent, or a complete earlier payload
InitialDirs ==
    { [dir |-> [target |-> None, tmp |-> None], inodes |-> <<>>],
      [dir |-> [target |-> Some(1), tmp |-> None], inodes |-> <<PreviousContent>>] }

\* path.with_name(f"{path.name}.tmp")
tmp_path_in_place(path) == path

tmp_path(path) == "tmp"

\* the content behind a path (None: no such file)
ContentAt(path) ==
    IF IsNone(fs_dir[path]) THEN None ELSE Some(fs_inodes[TheVal(fs_dir[path])])

\* handle.write at an offset: a write past the end fills the gap with zero bytes
WriteAt(content, offset, byte) ==
    [i \in 1..Max(Len(content), offset + 1) |->
        IF i = offset + 1 THEN byte
        ELSE IF i <= Len(content) THEN content[i] ELSE "0"]

InProgress(w) == w_pc[w] \in {"open", "closed"}

InitWrite ==
    /\ \E d \in InitialDirs : fs_dir = d.dir /\ fs_inodes = d.inodes
    /\ w_pc = [w \in Writers |-> "idle"] /\ w_handle = [w \in Writers |-> None]
    /\ w_offset = [w \in Writers |-> 0] /\ w_prev = [w \in Writers |-> None]
    /\ w_alone = [w \in Writers |-> TRUE]
    /\ CoreIdle /\ QualityIdle /\ CompilerIdle /\ DownloadIdle /\ BootstrapIdle
    /\ CacheIdle /\ CandidatesIdle /\ TokensIdle

\* tmp_path.open("wb"): the file behind <name>.tmp is created, or truncated when
\* it is there already
OpenTmp(w) ==
    /\ w_pc[w] = "idle"
    /\ IF IsNone(fs_dir[tmp_path("target")])
       THEN /\ fs_inodes' = Append(fs_inodes, <<>>)
            /\ fs_dir' = [fs_dir EXCEPT ![tmp_path("target")] = Some(Len(fs_inodes) + 1)]
            /\ w_handle' = [w_handle EXCEPT ![w] = Some(Len(fs_inodes) + 1)]
       ELSE /\ fs_inodes' = [fs_inodes EXCEPT ![TheVal(fs_dir[tmp_path("target")])] = <<>>]
            /\ fs_dir' = fs_dir
            /\ w_handle' = [w_handle EXCEPT ![w] = fs_dir[tmp_path("target")]]
    /\ w_pc' = [w_pc EXCEPT ![w] = "open"]
    /\ w_prev' = [w_prev EXCEPT ![w] = ContentAt("target")]
    /\ w_alone' = [o \in Writers |->
                     IF o = w THEN \A x \in Writers \ {w} : ~InProgress(x)
                     ELSE IF w_pc[o] = "idle" THEN w_alone[o] ELSE FALSE]
    /\ UNCHANGED w_offset
    /\ UNCHANGED <<oldVars, kcVars, cdVars, tkVars>>

\* handle.write(data); handle.flush(): the next byte of the payload reaches the file
WriteByte(w) ==
    /\ w_pc[w] = "open"
    /\ w_offset[w] < Len(Payload(w))
    /\ fs_inodes' = [fs_inodes EXCEPT ![TheVal(w_handle[w])] =
                        WriteAt(@, w_offset[w], Payload(w)[w_offset[w] + 1])]
    /\ w_offset' = [w_offset EXCEPT ![w] = @ + 1]
    /\ UNCHANGED <<fs_dir, w_pc, w_handle, w_prev, w_alone>>
    /\ UNCHANGED <<oldVars, kcVars, cdVars, tkVars>>

\* os.fsync(handle.fileno()) and the end of the with block
CloseHandle(w) ==
    /\ w_pc[w] = "open"
    /\ w_offset[w] = Len(Payload(w))
    /\ w_pc' = [w_pc EXCEPT ![w] = "closed"]
    /\ UNCHANGED <<fs_dir, fs_inodes, w_handle, w_offset, w_prev, w_alone>>
    /\ UNCHANGED <<oldVars, kcVars, cdVars, tkVars>>

\* write, flush or fsync raise OSError (or the process dies): the call ends
\* before os.replace, the temporary file stays as it is
FailWrite(w) ==
    /\ w_pc[w] = "open"
    /\ w_pc' = [w_pc EXCEPT ![w] = "raised"]
    /\ UNCHANGED <<fs_dir, fs_inodes, w_handle, w_offset, w_prev, w_alone>>
    /\ UNCHANGED <<oldVars, kcVars, cdVars, tkVars>>

\* os.replace(tmp_path, path): FileNotFoundError when <name>.tmp is gone
Replace(w) ==
    /\ w_pc[w] = "closed"
    /\ IF IsNone(fs_dir[tmp_path("target")])
       THEN /\ w_pc' = [w_pc EXCEPT ![w] = "replace_raised"]
            /\ UNCHANGED fs_dir
       ELSE /\ w_pc' = [w_pc EXCEPT ![w] = "returned"]
            /\ fs_dir' = IF tmp_path("target") = "target" THEN fs_dir
                         ELSE [target |-> fs_dir[tmp_path("target")], tmp |-> None]
    /\ UNCHANGED <<fs_inodes, w_handle, w_offset, w_prev, w_alone>>
    /\ UNCHANGED <<oldVars, kcVars, cdVars, tkVars>>

NextWrite ==
    \E w \in Writers :
        OpenTmp(w) \/ WriteByte(w) \/ CloseHandle(w) \/ FailWrite(w) \/ Replace(w)

SpecWrite == InitWrite /\ [][NextWrite]_vars

(***************************************************************************)
(* The atomic-write claims.                                                *)
(***************************************************************************)
\* C22: for a call of atomic_write_bytes that no other call overlaps: while it is
\* in progress, and when it fails before the rename, the target holds what it held
\* when the call began; once the call has returned the target holds the complete
\* payload and no <name>.tmp remains.
C22_SingleWriteAtomic ==
    \A w \in Writers :
        w_alone[w] =>
            /\ (InProgress(w) \/ w_pc[w] = "raised") => ContentAt("target") = w_prev[w]
            /\ w_pc[w] = "returned" =>
                  /\ ContentAt("target") = Some(Payload(w))
                  /\ IsNone(fs_dir.tmp)
            /\ w_pc[w] # "replace_raised"

\* A call that replaced an existing target, after an earlier call failed and left
\* half a payload in <name>.tmp.
C22_Witness ==
    /\ w_alone[2] /\ w_pc[2] = "returned" /\ w_pc[1] = "raised" /\ w_offset[1] = 1
    /\ w_prev[2] = Some(PreviousContent)
    /\ ContentAt("target") = Some(Payload(2))

\* A call stopped half-way through its payload: the target is the previous content.
C22_WitnessFailure ==
    /\ w_alone[1] /\ w_pc[1] = "raised" /\ w_offset[1] = 1 /\ w_pc[2] = "idle"
    /\ ContentAt("tmp") = Some(<<"a">>)
    /\ ContentAt("target") = Some(PreviousContent)

CompleteContents == {None, Some(PreviousContent)} \cup {Some(Payload(w)) : w \in Writers}

\* C30 as stated: with two calls interleaved on one target path, the target only
\* ever holds the previous content or one caller's complete payload, and no call
\* fails because of the other.
C30_AsStated ==
    /\ ContentAt("target") \in CompleteContents
    /\ \A w \in Writers : w_pc[w] # "replace_raised"

(***************************************************************************)
(* The order of the compiled variants.                                     *)
(***************************************************************************)
\* The list is in strictly ascending order of (-token_count, -len, value).
InKeyOrder(list) ==
    \A j, k \in 1..Len(list) :
        j < k => /\ token_count(list[j]) >= token_count(list[k])
                 /\ token_count(list[j]) = token_count(list[k])
                       => /\ Len(list[j]) >= Len(list[k])
                          /\ Len(list[j]) = Len(list[k]) => VariantLess(list[j], list[k])

ConditionalList(concept) ==
    [k \in 1..Len(concept.conditionalVariants) |-> concept.conditionalVariants[k].variant]

C23_WitnessConditional ==
    /\ Exited /\ ~IsNone(c_written)
    /\ \E i \in 1..Len(FileConcepts) :
          /\ Len(FileConcepts[i].conditional_variants) = 2
          /\ FileConcepts[i].conditional_variants[1].variant = <<"u", "s">>
          /\ ConditionalList(TheVal(c_written).concepts[i])
                = <<<<"a", "i", " ", "r", "i", "s", "k">>, <<"u", "s">>>>
          /\ TheVal(c_written).concepts[i].variants
                = <<<<"x", "y", " ", "r", "i", "s", "k">>>>

(***************************************************************************)
(* The extractor's scores, the anchor test and the fallback.               *)
(***************************************************************************)
\* base + lengthBonus + ... + endNotFoundPenalty, added in that order
BreakdownSum(b) ==
    FAdd(FAdd(FAdd(FAdd(FAdd(FAdd(b.base, b.lengthBonus), b.earlyPositionPenalty),
                        b.tocClusterPenalty), b.modalityBonus), b.headingDensityBonus),
         b.endNotFoundPenalty)

\* C24 as stated: the confidence of a text-scored candidate is the sum of 0.5, the
\* length bonus, the early-position penalty, the TOC-cluster penalty, the modality
\* bonus, the heading-density bonus and the end-not-found penalty, clamped once to
\* [0.05, 0.95] (checked on the best candidate so far).
C24_AsStated ==
    ~IsNone(best) =>
        /\ TheVal(best).confidence
              = Clamp(F_0_05, BreakdownSum(TheVal(best).scoreBreakdown), F_0_95)
        /\ F_0_05 <= TheVal(best).confidence /\ TheVal(best).confidence <= F_0_95

\* C25: a result of method html_anchor has confidence >= 0.5 and a section of at
\* least 8000 characters, and the loop went past no candidate meeting both before
\* it; candidates failing either test are passed with anchor_low_confidence
\* recorded once, the loop going on; when no anchor is accepted the result comes
\* from the text path with anchor_missing among its warnings.
C25_AnchorAcceptance ==
    /\ went_past.meeting = 0
    /\ CountIn(anchor_warnings, "anchor_low_confidence")
          = (IF went_past.failing > 0 THEN 1 ELSE 0)
    /\ (went_past.failing > 0 /\ IsNone(result))
          => pc \in {"anchor-scan", "text-scan", "fallback-scan"}
    /\ ~IsNone(result) =>
          IF TheVal(result).method = "html_anchor"
          THEN /\ TheVal(result).confidence >= F_0_5
               /\ TextLen(TheVal(result).section) >= MinSectionLen
               /\ ~Contains(trail, "text-scan")
          ELSE /\ Contains(trail, "text-scan")
               /\ CountIn(TheVal(result).warnings, "anchor_missing") = 1
               /\ CountIn(TheVal(result).warnings, "anchor_low_confidence")
                     = (IF went_past.failing > 0 THEN 1 ELSE 0)

\* The first anchor failed the test, the second one was accepted.
C25_Witness ==
    /\ ~IsNone(result)
    /\ TheVal(result).method = "html_anchor"
    /\ went_past.failing = 1
    /\ anchor_warnings = <<"anchor_low_confidence">>

\* Two anchors failed the test: the text path's result carries both warnings.
C25_WitnessTextPath ==
    /\ ~IsNone(result)
    /\ TheVal(result).method = "text_scored"
    /\ went_past.failing = 2
    /\ SubSeq(TheVal(result).warnings, 1, 2) = <<"anchor_low_confidence", "anchor_missing">>

\* C26 as stated: a fallback result is returned only when the text path had no
\* candidate, its confidence is 0.35, and its section spans at most 80,000
\* characters.
C26_AsStated ==
    (~IsNone(result) /\ TheVal(result).method = "risk_factors_fallback") =>
        /\ IsNone(best)
        /\ TheVal(result).confidence = F_0_35
        /\ TextLen(TheVal(result).section) <= NoEndSpan

(***************************************************************************)
(* sec_extract_item1a.py: the candidates of extract_item1a_from_text and   *)
(* the boundary set it chooses.  The text is read as its heading lines:    *)
(*   item1a_risk   "Item 1A. Risk Factors"                                 *)
(*   item1a_bare   "Item 1A." with no more on the line                     *)
(*   item3d_risk   "Item 3D. Risk Factors"                                 *)
(*   item3         "Item 3. Key Information"                               *)
(*   risk_heading  "Risk Factors" on a line of its own                     *)
(*   risk_long     a line of more than 80 characters starting with         *)
(*                 "Risk factors"                                          *)
(*   gap           body text of more than 20,000 characters                *)
(*   1C, 2, 4A, 4  the boundary headings "Item 1C", "Item 2", ...          *)
(* A candidate is the index of the line it starts at.                      *)
(***************************************************************************)
MaxLines == 4

LineKinds ==
    {"item1a_risk", "item1a_bare", "item3d_risk", "item3", "risk_heading", "risk_long",
     "gap", "1C", "2", "4A", "4"}

LineLen(kind) ==
    IF kind = "gap" THEN 20001 ELSE IF kind = "risk_long" THEN 100 ELSE 30

RiskWindow == 400
Item3Reach == 20000
PhraseEnd == 25

\* the offset of line i in the text
RECURSIVE StartOf(_, _)
StartOf(doc, i) == IF i <= 1 THEN 0 ELSE StartOf(doc, i - 1) + LineLen(doc[i - 1])

END_MARKERS_10K == <<"1C", "1B", "2">>

END_MARKERS_20F == <<"4A", "4B", "4">>

\* _contains_risk_factors(text[start_idx : start_idx + 400]) for the line i
contains_risk_factors(doc, i) ==
    \E j \in i..Len(doc) :
        /\ doc[j] \in {"item1a_risk", "item3d_risk", "risk_heading", "risk_long"}
        /\ StartOf(doc, j) + PhraseEnd <= StartOf(doc, i) + RiskWindow

\* add_candidate
add_candidate(candidates, start_idx) ==
    IF Contains(candidates, start_idx) THEN candidates ELSE Append(candidates, start_idx)

\* for match in ITEM1A_HEADING.finditer(text) / ITEM3D_HEADING.finditer(text)
RECURSIVE HeadingLoop(_, _, _, _)
HeadingLoop(doc, kinds, i, candidates) ==
    IF i > Len(doc) THEN candidates
    ELSE HeadingLoop(doc, kinds, i + 1,
                     IF doc[i] \in kinds /\ contains_risk_factors(doc, i)
                     THEN add_candidate(candidates, i)
                     ELSE candidates)

\* RISK_FACTORS_HEADING.search(text, start_idx): the line of the first match, 0 if none
RECURSIVE risk_heading_after(_, _)
risk_heading_after(doc, i) ==
    IF i > Len(doc) THEN 0
    ELSE IF doc[i] \in {"risk_heading", "risk_long"} THEN i
    ELSE risk_heading_after(doc, i + 1)

\* for match in ITEM3_HEADING.finditer(text)
RECURSIVE Item3Loop(_, _, _)
Item3Loop(doc, i, candidates) ==
    IF i > Len(doc) THEN candidates
    ELSE Item3Loop(doc, i + 1,
                   IF /\ doc[i] = "item3"
                      /\ risk_heading_after(doc, i) # 0
                      /\ ~(StartOf(doc, risk_heading_after(doc, i)) - StartOf(doc, i)
                              > Item3Reach)
                   THEN add_candidate(candidates, risk_heading_after(doc, i))
                   ELSE candidates)

\* for match in RISK_FACTORS_HEADING.finditer(text): lines of at most 80 characters
RECURSIVE RiskHeadingLoop(_, _, _)
RiskHeadingLoop(doc, i, candidates) ==
    IF i > Len(doc) THEN candidates
    ELSE RiskHeadingLoop(doc, i + 1,
                         IF doc[i] = "risk_heading" THEN add_candidate(candidates, i)
                         ELSE candidates)

\* A variant that goes by the boundary headings present in the text only.
select_end_markers_by_presence(found_item1a, found_20f, has_10k_marker) ==
    IF has_10k_marker THEN END_MARKERS_10K ELSE END_MARKERS_20F

\* if found_20f: ... elif not found_item1a: ... else: ...
select_end_markers(found_item1a, found_20f, has_10k_marker) ==
    IF found_20f THEN END_MARKERS_20F
    ELSE IF ~found_item1a
    THEN (IF has_10k_marker THEN END_MARKERS_10K ELSE END_MARKERS_20F)
    ELSE END_MARKERS_10K

\* pattern.search(text, start_idx + 1): the line of the first match, 0 if none
RECURSIVE marker_after(_, _, _)
marker_after(doc, label, i) ==
    IF i > Len(doc) THEN 0
    ELSE IF doc[i] = label THEN i
    ELSE marker_after(doc, label, i + 1)

\* _find_end_marker: st is (end_idx, end_marker), 0 and "" for None
RECURSIVE find_end_marker_loop(_, _, _, _)
find_end_marker_loop(doc, start_idx, markers, st) ==
    IF markers = <<>> THEN st
    ELSE find_end_marker_loop(
             doc, start_idx, Tail(markers),
             IF marker_after(doc, Head(markers), start_idx + 1) = 0 THEN st
             ELSE IF st.end_idx = 0
                     \/ marker_after(doc, Head(markers), start_idx + 1) < st.end_idx
             THEN [end_idx |-> marker_after(doc, Head(markers), start_idx + 1),
                   end_marker |-> Head(markers)]
             ELSE st)

find_end_marker(doc, start_idx, markers) ==
    find_end_marker_loop(doc, start_idx, markers, [end_idx |-> 0, end_marker |-> ""])

\* extract_item1a_from_text up to the loop over the candidates: after_1a, after_3d,
\* after_3 are the candidates after the three heading scans
CandidatesFound(doc, after_1a, after_3d, after_3, candidates, end_markers) ==
    [candidates |-> candidates,
     found_item1a |-> after_1a # <<>>,
     found_20f |-> after_1a = <<>> /\ after_3 # <<>>,
     scanned |-> {"ITEM1A", "RISK_HEADING"}
                 \cup (IF after_1a = <<>> THEN {"ITEM3D"} ELSE {})
                 \cup (IF after_1a = <<>> /\ after_3d = <<>> THEN {"ITEM3"} ELSE {}),
     end_markers |-> end_markers,
     ends |-> [k \in 1..Len(candidates) |->
                  find_end_marker(doc, candidates[k], end_markers)]]

CandidatesAfter3(doc, after_1a, after_3d, after_3) ==
    CandidatesFound(doc, after_1a, after_3d, after_3,
                    RiskHeadingLoop(doc, 1, after_3),
                    select_end_markers(after_1a # <<>>,
                                       after_1a = <<>> /\ after_3 # <<>>,
                                       \E i \in 1..Len(doc) :
                                           doc[i] \in Range(END_MARKERS_10K)))

CandidatesAfter3d(doc, after_1a, after_3d) ==
    CandidatesAfter3(doc, after_1a, after_3d,
                     IF after_1a = <<>> /\ after_3d = <<>>
                     THEN Item3Loop(doc, 1, after_3d) ELSE after_3d)

CandidatesAfter1a(doc, after_1a) ==
    CandidatesAfter3d(doc, after_1a,
                      IF after_1a = <<>>
                      THEN HeadingLoop(doc, {"item3d_risk"}, 1, after_1a) ELSE after_1a)

find_candidates(doc) ==
    CandidatesAfter1a(doc, HeadingLoop(doc, {"item1a_risk", "item1a_bare"}, 1, <<>>))

InitCandidates ==
    /\ x_doc = <<>>
    /\ x_found = None
    /\ CoreIdle /\ QualityIdle /\ CompilerIdle /\ DownloadIdle /\ BootstrapIdle
    /\ CacheIdle /\ WriteIdle /\ TokensIdle

\* the text holds one more heading line
AddLine ==
    /\ x_found = None
    /\ Len(x_doc) < MaxLines
    /\ \E kind \in LineKinds : x_doc' = Append(x_doc, kind)
    /\ UNCHANGED x_found
    /\ UNCHANGED <<oldVars, kcVars, awVars, tkVars>>

\* extract_item1a_from_text(text), up to the choice of the best candidate
FindCandidates ==
    /\ x_found = None
    /\ x_found' = Some(find_candidates(x_doc))
    /\ UNCHANGED x_doc
    /\ UNCHANGED <<oldVars, kcVars, awVars, tkVars>>

NextCandidates == AddLine \/ FindCandidates

SpecCandidates == InitCandidates /\ [][NextCandidates]_vars

(***************************************************************************)
(* The boundary-set claim.                                                 *)
(***************************************************************************)
LinesOf(kinds) == {i \in 1..Len(x_doc) : x_doc[i] \in kinds}

\* an Item 1A heading with the phrase within its next 400 characters
Item1aQualifies == \E i \in LinesOf({"item1a_risk", "item1a_bare"}) :
                       contains_risk_factors(x_doc, i)

Item3dQualifies == \E i \in LinesOf({"item3d_risk"}) : contains_risk_factors(x_doc, i)

\* an Item 3 heading with a risk-factors heading line at most 20,000 characters on
Item3Qualifies ==
    \E i \in LinesOf({"item3"}), j \in LinesOf({"risk_heading", "risk_long"}) :
        /\ j > i
        /\ \A m \in LinesOf({"risk_heading", "risk_long"}) : m > i => j <= m
        /\ StartOf(x_doc, j) - StartOf(x_doc, i) <= Item3Reach

\* Every candidate ends at the nearest following heading of the boundary set.
EndsBy(found, markers) ==
    \A k \in 1..Len(found.candidates) :
        LET after == {j \in LinesOf(Range(markers)) : j > found.candidates[k]}
        IN  IF after = {}
            THEN found.ends[k].end_idx = 0
            ELSE /\ found.ends[k].end_idx \in after
                 /\ \A j \in after : found.ends[k].end_idx <= j
                 /\ found.ends[k].end_marker = x_doc[found.ends[k].end_idx]

\* C27: when an Item 1A heading qualifies, the form-A boundaries (1C, 1B, 2) end
\* every candidate and the Item 3D and Item 3 headings are not scanned; otherwise,
\* when an Item 3D heading qualifies, or failing that an Item 3 heading, the form-B
\* boundaries (4A, 4B, 4) end every candidate, the bare risk-factors heading lines
\* added afterwards included.
C27_BoundarySet ==
    ~IsNone(x_found) =>
        LET found == TheVal(x_found)
        IN  /\ LinesOf({"risk_heading"}) \subseteq Range(found.candidates)
            /\ IF Item1aQualifies
               THEN /\ found.end_markers = END_MARKERS_10K
                    /\ EndsBy(found, END_MARKERS_10K)
                    /\ found.scanned \cap {"ITEM3D", "ITEM3"} = {}
                    /\ Range(found.candidates) \cap LinesOf({"item3d_risk"}) = {}
               ELSE IF Item3dQualifies \/ Item3Qualifies
               THEN /\ found.end_markers = END_MARKERS_20F
                    /\ EndsBy(found, END_MARKERS_20F)
                    /\ Item3dQualifies => "ITEM3" \notin found.scanned
               ELSE TRUE

\* An Item 3D candidate, then a bare risk-factors heading, then Item 2 and Item 4:
\* both candidates end at Item 4, the Item 2 heading between them is no boundary.
C27_Witness ==
    /\ ~IsNone(x_found)
    /\ x_doc = <<"item3d_risk", "risk_heading", "2", "4">>
    /\ TheVal(x_found).candidates = <<1, 2>>
    /\ TheVal(x_found).ends[2].end_marker = "4"

\* An Item 1A candidate in a text that also holds an Item 3D heading: form A.
C27_WitnessFormA ==
    /\ ~IsNone(x_found)
    /\ x_doc = <<"item3d_risk", "4", "item1a_risk", "2">>
    /\ TheVal(x_found).candidates = <<3>>
    /\ TheVal(x_found).ends[1].end_marker = "2"

(***************************************************************************)
(* SpecTokens: tokenize applied to a raw token stream, the tokens that     *)
(* re.findall(r"[a-z]{2,}", text.lower()) finds, added one by one.         *)
(***************************************************************************)
MaxRawTokens == 3

RawVocabulary == {"mr", "dr", "smith", "jr", "company", "the", "ai", "ab"}

InitTokens ==
    /\ t_raw = <<>>
    /\ t_out = None
    /\ CoreIdle /\ QualityIdle /\ CompilerIdle /\ DownloadIdle /\ BootstrapIdle
    /\ CacheIdle /\ WriteIdle /\ CandidatesIdle

\* the text holds one more run of two or more letters
AddRawToken ==
    /\ t_out = None
    /\ Len(t_raw) < MaxRawTokens
    /\ \E token \in RawVocabulary : t_raw' = Append(t_raw, token)
    /\ UNCHANGED t_out
    /\ UNCHANGED <<oldVars, kcVars, awVars, cdVars>>

\* tokens = tokenize(text)
Tokenize ==
    /\ t_out = None
    /\ t_out' = Some(TokenizeRange(t_raw, 1, Len(t_raw), FALSE).tokens)
    /\ UNCHANGED t_raw
    /\ UNCHANGED <<oldVars, kcVars, awVars, cdVars>>

NextTokens == AddRawToken \/ Tokenize

SpecTokens == InitTokens /\ [][NextTokens]_vars

(***************************************************************************)
(* The tokenizer claim.                                                    *)
(***************************************************************************)
\* The raw token at position i may be emitted: it is no honorific, does not follow
\* an honorific, is no name suffix, noise token or stopword, and has three
\* characters or is whitelisted.
MayBeEmitted(raw, i) ==
    /\ raw[i] \notin HONORIFICS
    /\ ~(i > 1 /\ raw[i - 1] \in HONORIFICS)
    /\ raw[i] \notin NAME_SUFFIXES \cup NOISE_TOKENS \cup STOPWORDS
    /\ Len(raw[i]) >= 3 \/ raw[i] \in ALLOWED_SHORT_TOKENS

\* kept is raw[from..] cut down to some of the positions that may be emitted, in order
RECURSIVE KeptInOrder(_, _, _)
KeptInOrder(kept, raw, from) ==
    IF kept = <<>> THEN TRUE
    ELSE IF from > Len(raw) THEN FALSE
    ELSE IF MayBeEmitted(raw, from) /\ raw[from] = Head(kept)
    THEN KeptInOrder(Tail(kept), raw, from + 1)
    ELSE KeptInOrder(kept, raw, from + 1)

\* C28 as stated: tokenize emits no honorific, no token that immediately follows an
\* honorific in the raw stream, no name suffix, noise token or stopword, no token
\* shorter than 3 characters outside the whitelist, and keeps the order of the
\* tokens it emits.
C28_AsStated == ~IsNone(t_out) => KeptInOrder(TheVal(t_out), t_raw, 1)


(***************************************************************************)
(* The signs of the scores in topRisers and topFallers.                    *)
(***************************************************************************)
\* score = log(oddsNum / oddsDen) is positive (negative) when the fraction is above
\* (below) one.
PositiveScore(e) == e.oddsNum > e.oddsDen
NegativeScore(e) == e.oddsNum < e.oddsDen

TermsOf(list) == {list[i].term : i \in 1..Len(list)}

SignsSeparate(pair, stats) ==
    /\ \A e \in stats : e.term \in TermsOf(pair.topRisers) => PositiveScore(e)
    /\ \A e \in stats : e.term \in TermsOf(pair.topFallers) => NegativeScore(e)
    /\ TermsOf(pair.topRisers) \cap TermsOf(pair.topFallers) = {}

\* C29 as stated: in every shift pair every term of topRisers has a positive score,
\* every term of topFallers a negative score, and no term is in both lists.
C29_AsStated ==
    Returned =>
        \A k \in 1..Len(TheVal(built).shifts.yearPairs) :
            SignsSeparate(TheVal(built).shifts.yearPairs[k], PairStats(k))

SelectionIgnoresSign(pair, stats) ==
    LET size == Cardinality(stats)
        taken == Min(15, size)
        risers == {e \in stats : e.term \in TermsOf(pair.topRisers)}
        fallers == {e \in stats : e.term \in TermsOf(pair.topFallers)}
    IN  /\ Cardinality(risers) = taken /\ Cardinality(fallers) = taken
        /\ Cardinality({e \in risers : PositiveScore(e)})
              = Min(taken, Cardinality({e \in stats : PositiveScore(e)}))
        /\ Cardinality({e \in fallers : NegativeScore(e)})
              = Min(taken, Cardinality({e \in stats : NegativeScore(e)}))
        /\ Cardinality(risers \cap fallers) >= 2 * taken - size
        /\ size <= 15 => risers = stats /\ fallers = stats

\* C29: in every shift pair topRisers and topFallers each hold min(15, |vocabulary|)
\* terms whatever the signs of the scores: topRisers holds terms of positive score
\* only as far as the vocabulary has them and is filled up with terms of zero or
\* negative score, topFallers likewise with terms of negative score; at least
\* 2 * min(15, |vocabulary|) - |vocabulary| terms are in both lists, and every term
\* of a vocabulary of at most 15 terms is in both.
C29_SelectionIgnoresSign ==
    Returned =>
        \A k \in 1..Len(TheVal(built).shifts.yearPairs) :
            SelectionIgnoresSign(TheVal(built).shifts.yearPairs[k], PairStats(k))

SharedAcrossSigns(pair, stats) ==
    /\ Cardinality(stats) \in 16..29
    /\ \E e \in stats : PositiveScore(e)
    /\ \E e \in stats : NegativeScore(e)
    /\ TermsOf(pair.topRisers) \cap TermsOf(pair.topFallers) # {}
    /\ \E e \in stats : e.term \in TermsOf(pair.topRisers) /\ ~PositiveScore(e)

\* A pair of more than 15 and fewer than 30 terms, with scores of both signs: a
\* term is in both lists and a term of topRisers has no positive score.
C29_Witness ==
    /\ Returned /\ Len(TheVal(built).shifts.yearPairs) >= 1
    /\ SharedAcrossSigns(TheVal(built).shifts.yearPairs[1], PairStats(1))

=============================================================================
